---- MODULE Spec2Model ----
\* Model of the macro engine (src/core/macro_engine.py) and of the part of
\* the settings store (src/core/config.py) the engine reads.
\* Threads: the thread that calls the public API (start, stop, toggle), the
\* keyboard listener thread (one callback per key event), one
\* thread per macro run (run_macro) and the auto-cast thread
\* (_auto_cast_loop).  An API call and a listener callback are one step
\* each; a macro run and the auto-cast loop advance one check or one
\* action at a time, so that every wait (time.sleep) is a state in which
\* the other threads can run.
EXTENDS Integers, Sequences, FiniteSets, Bags, TLC

\* ------------------------------------------------------------------ bounds

\* Number of macro threads that can be alive at the same time.
MaxTasks == 2

\* Number of auto-cast threads that can be alive at the same time.
MaxAuto == 2

\* Number of macros and of auto-cast skills the settings store is filled with
\* through MacroConfig.add_macro and MacroConfig.add_auto_cast_skill.
MaxMacros == 2
MaxSkills == 2

None == "None"

\* ------------------------------------------------------------ key events

\* A pynput key event: a KeyCode carrying a printable character, or a member
\* of the Key enumeration (no char attribute, str(key) is "Key.<name>").
CharKey(c) == [kind |-> "char", v |-> c]
SpecialKey(n) == [kind |-> "special", v |-> n]

Keys == {CharKey("q"), CharKey("x"), SpecialKey("f9")}

\* str(key)
StrOfKey(key) == IF key.kind = "char" THEN key.v ELSE "Key." \o key.v

\* str.lower() on the strings of the model
Lower(s) ==
    CASE s = "Q" -> "q"
      [] s = "X" -> "x"
      [] s = "F9" -> "f9"
      [] s = "Key.f9" -> "key.f9"
      [] OTHER -> s

\* str.replace('Key.', '') on the strings of the model
StripKeyPrefix(s) ==
    CASE s = "Key.f9" -> "f9"
      [] OTHER -> s

\* key_char as computed at the top of _handle_key_press
KeyChar(key) == IF key.kind = "char" THEN key.v ELSE StrOfKey(key)

\* _key_matches(key, hotkey)
KeyMatches(key, hotkey) ==
    IF key.kind = "char" /\ key.v # ""
    THEN Lower(key.v) = Lower(hotkey)
    ELSE Lower(StripKeyPrefix(StrOfKey(key))) = Lower(hotkey)

\* ---------------------------------------------------------------- settings

\* Macro action dictionaries.
KeyPressAction(k) == [type |-> "key_press", key |-> k]
KeyHoldAction(k) == [type |-> "key_hold", key |-> k]
MouseClickAction(b) == [type |-> "mouse_click", button |-> b]
DelayAction == [type |-> "delay"]
ComboAction(ks) == [type |-> "combo", keys |-> ks]

Macro(n, h, as) == [name |-> n, hotkey |-> h, actions |-> as]

\* MacroConfig._get_default_settings; the hotkeys dictionary is kept as the
\* sequence of its items in insertion order.
DefaultSettings ==
    [quick_cast |-> [enabled |-> TRUE,
                     hotkeys |-> << <<"skill_1", "q">>, <<"skill_2", "w">>,
                                    <<"skill_3", "e">>, <<"skill_4", "r">>,
                                    <<"skill_5", "d">>, <<"skill_6", "f">> >>],
     auto_cast |-> [enabled |-> FALSE, skills |-> <<>>, interval_ms |-> 100],
     macros |-> <<>>,
     global_hotkey |-> "f9"]

\* ---------------------------------------------------------- the YAML file

\* A scalar of a YAML document: its characters and whether they are quoted
Plain(text) == [style |-> "plain", text |-> text]
Quoted(text) == [style |-> "quoted", text |-> text]

\* The integers that occur in the settings, and single digits
YamlInts == 0..9 \cup {100, 2000, 5000}

\* The plain scalars the YAML 1.1 resolver takes for a boolean, an integer or
\* null instead of a string
BoolTexts == {"true", "false", "yes", "no", "on", "off"}
IntTexts == {ToString(n) : n \in YamlInts}
NullTexts == {"null", "~", ""}

\* yaml.dump of a string: quoted when its plain form would not be read back
\* as a string
EmitStrPlain(str) == Plain(str)

EmitStr(str) ==
    IF str \in BoolTexts \cup IntTexts \cup NullTexts
    THEN Quoted(str)
    ELSE Plain(str)

\* yaml.dump of a bool and of an int
EmitBool(b) == Plain(IF b THEN "true" ELSE "false")
EmitInt(n) == Plain(ToString(n))

\* yaml.safe_load of a scalar where the settings hold a string: the string,
\* or a value of another type (written here as its tag and characters, which
\* no string of the settings equals)
ConstructStr(node) ==
    IF node.style = "quoted" THEN node.text
    ELSE IF node.text \in BoolTexts THEN "!!bool " \o node.text
    ELSE IF node.text \in IntTexts THEN "!!int " \o node.text
    ELSE IF node.text \in NullTexts THEN "!!null"
    ELSE node.text

\* yaml.safe_load of a scalar where the settings hold a bool or an int
ConstructBool(node) == node.style = "plain" /\ node.text \in {"true", "yes", "on"}
ConstructInt(node) == CHOOSE n \in YamlInts : ToString(n) = node.text

\* yaml.dump and yaml.safe_load of an action, an auto-cast skill and a macro:
\* block mappings and sequences, the entries in their order
EmitAction(action) ==
    [k \in DOMAIN action |->
        IF k = "keys"
        THEN [i \in 1..Len(action.keys) |-> EmitStr(action.keys[i])]
        ELSE EmitStr(action[k])]

ConstructAction(node) ==
    [k \in DOMAIN node |->
        IF k = "keys"
        THEN [i \in 1..Len(node.keys) |-> ConstructStr(node.keys[i])]
        ELSE ConstructStr(node[k])]

EmitSkill(skill) ==
    [k \in DOMAIN skill |->
        IF k = "interval_ms" THEN EmitInt(skill[k]) ELSE EmitStr(skill[k])]

ConstructSkill(node) ==
    [k \in DOMAIN node |->
        IF k = "interval_ms" THEN ConstructInt(node[k]) ELSE ConstructStr(node[k])]

EmitMacro(macro) ==
    [name |-> EmitStr(macro.name), hotkey |-> EmitStr(macro.hotkey),
     actions |-> [i \in 1..Len(macro.actions) |-> EmitAction(macro.actions[i])]]

ConstructMacro(node) ==
    [name |-> ConstructStr(node.name), hotkey |-> ConstructStr(node.hotkey),
     actions |-> [i \in 1..Len(node.actions) |-> ConstructAction(node.actions[i])]]

\* yaml.dump(self.settings): the top-level mapping, one node per key
Emit(st) ==
    [quick_cast |->
        [enabled |-> EmitBool(st.quick_cast.enabled),
         hotkeys |-> [i \in 1..Len(st.quick_cast.hotkeys) |->
                        <<st.quick_cast.hotkeys[i][1],
                          EmitStr(st.quick_cast.hotkeys[i][2])>>]],
     auto_cast |->
        [enabled |-> EmitBool(st.auto_cast.enabled),
         skills |-> [i \in 1..Len(st.auto_cast.skills) |->
                       EmitSkill(st.auto_cast.skills[i])],
         interval_ms |-> EmitInt(st.auto_cast.interval_ms)],
     macros |-> [i \in 1..Len(st.macros) |-> EmitMacro(st.macros[i])],
     global_hotkey |-> EmitStr(st.global_hotkey)]

\* yaml.safe_load of such a mapping: the value of top-level key k
Construct(k, node) ==
    CASE k = "quick_cast" ->
           [enabled |-> ConstructBool(node.enabled),
            hotkeys |-> [i \in 1..Len(node.hotkeys) |->
                           <<node.hotkeys[i][1], ConstructStr(node.hotkeys[i][2])>>]]
      [] k = "auto_cast" ->
           [enabled |-> ConstructBool(node.enabled),
            skills |-> [i \in 1..Len(node.skills) |-> ConstructSkill(node.skills[i])],
            interval_ms |-> ConstructInt(node.interval_ms)]
      [] k = "macros" ->
           [i \in 1..Len(node) |-> ConstructMacro(node[i])]
      [] k = "global_hotkey" -> ConstructStr(node)

\* The settings file: missing, or a file of one of the kinds load tells
\* apart: one that cannot be opened ("unreadable", an OSError), bytes that
\* are not UTF-8 ("undecodable", a UnicodeDecodeError from the read), text
\* that is not YAML ("malformed", a YAMLError), an empty document, a document
\* that is a scalar and no mapping ("scalar"), or a mapping of top-level keys
\* to nodes ("mapping", content its nodes).
NoFile == [exists |-> FALSE, content |-> <<>>]
File(content) == [exists |-> TRUE, kind |-> "mapping", content |-> content]
BadFile(kind) == [exists |-> TRUE, kind |-> kind, content |-> <<>>]

\* A file whose document is a sequence: content holds the leading items that
\* are pairs [key, value]; the item after them is no pair
PairsFile(content) == [exists |-> TRUE, kind |-> "sequence", content |-> content]

\* yaml.dump(self.settings, f) into the opened file
Dump(st) == File(Emit(st))

\* MacroConfig.load, its result: "True" or "False" returned, or the name of
\* the exception that leaves it (the except clause names yaml.YAMLError and
\* IOError only): open fails with an IOError on an unreadable file; reading
\* bytes that are not UTF-8 raises UnicodeDecodeError, a ValueError;
\* safe_load raises a YAMLError on malformed text and returns None for an
\* empty document; dict.update raises ValueError for a document that is a
\* text or a sequence with an item that is no pair
LoadResult(file) ==
    IF ~file.exists THEN "False"
    ELSE CASE file.kind = "unreadable" -> "False"
           [] file.kind = "undecodable" -> "UnicodeDecodeError"
           [] file.kind = "malformed" -> "False"
           [] file.kind = "empty" -> "True"
           [] file.kind = "scalar" -> "ValueError"
           [] file.kind = "sequence" -> "ValueError"
           [] file.kind = "mapping" -> "True"

\* MacroConfig.load is left by an exception its except clause does not name
LoadRaises(file) == LoadResult(file) \notin {"True", "False"}

\* MacroConfig.load, the settings it leaves: those in memory unless a mapping
\* was read, whose top-level keys replace the ones in memory (dict.update);
\* of a sequence dict.update takes the pairs in turn up to the item that
\* makes it raise
LoadSettings(mem, file) ==
    IF file.exists /\ file.kind \in {"mapping", "sequence"}
    THEN [k \in DOMAIN mem |->
            IF k \in DOMAIN file.content
            THEN Construct(k, file.content[k])
            ELSE mem[k]]
    ELSE mem

\* -------------------------------------------------------------- settings

\* MacroConfig.get_* as used by the engine
GetQuickCastEnabled(st) == st.quick_cast.enabled
GetQuickCastHotkeys(st) == st.quick_cast.hotkeys
GetAutoCastEnabled(st) == st.auto_cast.enabled
GetAutoCastSkills(st) == st.auto_cast.skills

\* MacroConfig.get_auto_cast_interval: _auto_cast_loop calls it, and
\* config.py does not define it; taken to return the default interval of the
\* settings, as the other getters return their entries.
GetAutoCastInterval(st) == st.auto_cast.interval_ms
GetMacros(st) == st.macros
GetGlobalHotkey(st) == st.global_hotkey

\* ------------------------------------------------------------------- state

VARIABLES
    PYNPUT_AVAILABLE,    \* the pynput import succeeded
    WINDOWS_AVAILABLE,   \* the SendInput backend is available
    settings,            \* MacroConfig.settings
    disk,                \* the settings file: missing, or its content
    running,             \* MacroEngine.running
    enabled,             \* MacroEngine.enabled
    use_direct_input,    \* MacroEngine.use_direct_input
    quick_cast_enabled,  \* MacroEngine._quick_cast_enabled
    auto_cast_enabled,   \* MacroEngine._auto_cast_enabled
    auto_cast_thread,    \* MacroEngine._auto_cast_thread is not None
    stop_auto_cast,      \* MacroEngine._stop_auto_cast (threading.Event)
    keyboard_listener,   \* MacroEngine._keyboard_listener is not None
    listeners,           \* number of started, not stopped keyboard listeners
    macro_threads,       \* the keys of MacroEngine._macro_threads
    tasks,               \* the bag of live macro threads (run_macro)
    autos,               \* the bag of live auto-cast threads (_auto_cast_loop)
    abandoned,           \* history: the live macro threads that were inside
                         \* _execute_action when enabled became false and
                         \* have not passed their next test of enabled
    call,                \* the operation the last step performed and its result
    injected             \* the backend calls the last step made, in order

vars == <<PYNPUT_AVAILABLE, WINDOWS_AVAILABLE, settings, disk, running, enabled,
          use_direct_input, quick_cast_enabled, auto_cast_enabled,
          auto_cast_thread, stop_auto_cast, keyboard_listener, listeners,
          macro_threads, tasks, autos, abandoned, call, injected>>

platformVars == <<PYNPUT_AVAILABLE, WINDOWS_AVAILABLE, use_direct_input>>
configVars == <<settings, disk>>
lifecycleVars == <<running, enabled>>
listenerVars == <<keyboard_listener, listeners>>
autoVars == <<auto_cast_thread, stop_auto_cast, autos>>
macroVars == <<macro_threads, tasks>>
engineVars == <<platformVars, lifecycleVars, quick_cast_enabled,
                auto_cast_enabled, autoVars, listenerVars, macroVars, abandoned>>

\* A macro thread: the macro it was started for (name and actions are bound
\* when the thread is created), the index of the action the for loop is at,
\* and whether it is about to test enabled ("check") or inside
\* _execute_action ("action").  The values of _macro_threads are never read
\* (the code tests membership, assigns, pops and clears), so the dictionary
\* is kept as the set of its keys and the threads carry no identity.
\* direct is the branch _execute_action took for the action in progress
\* (its test of use_direct_input and available was true).  One field is
\* history: used is the set of backends the calls of the run went to.
NewTask(macro) ==
    [phase |-> "check", name |-> macro.name, actions |-> macro.actions, i |-> 1,
     direct |-> FALSE, used |-> {}]

\* An auto-cast thread: at the while condition ("while") or at the top of the
\* for loop over the skills ("for", i the index of the next skill); held
\* says that _auto_cast_thread refers to this thread; interval_ms is the
\* default interval the loop reads before its first sweep.  Two fields are
\* history: snapshot is the list of skills as it was when the current sweep
\* began, and cut says that the stop event was set (and with it, where the
\* engine does so, enabled cleared) while the thread was inside a sweep,
\* sleeping after a tap, and that the thread has not woken up since.
NewAuto ==
    [pc |-> "while", i |-> 0, held |-> TRUE,
     interval_ms |-> GetAutoCastInterval(settings), snapshot |-> <<>>,
     cut |-> FALSE]

One(x) == SetToBag({x})

\* The history after a step that sets enabled to false: the threads recorded
\* before that are not inside an action, and every thread inside an action
Interrupted ==
    LET S == {t \in BagToSet(tasks) : t.phase = "action"}
                \cup {t \in BagToSet(abandoned) : t.phase # "action"}
    IN  [t \in S |-> IF t.phase = "action" THEN tasks[t] ELSE abandoned[t]]

\* The bag b with one copy of x replaced by y
Replace(b, x, y) == (b (-) One(x)) (+) One(y)

\* Every auto-cast thread as the handle's reassignment or reset leaves it
Unheld(b) ==
    LET S == BagToSet(b)
        U(a) == [a EXCEPT !.held = FALSE]
    IN  [u \in {U(a) : a \in S} |->
            (IF u \in S THEN b[u] ELSE 0)
            + (IF [u EXCEPT !.held = TRUE] \in S
               THEN b[[u EXCEPT !.held = TRUE]] ELSE 0)]

\* Every auto-cast thread as _stop_auto_cast_thread leaves it: the event is
\* set for all of them and the handle is reset
Signalled(b) ==
    LET S == BagToSet(b)
        G(a) == [a EXCEPT !.held = FALSE,
                          !.cut = @ \/ (a.pc = "for" /\ a.i > 1)]
    IN  [u \in {G(a) : a \in S} |->
            BagCardinality([x \in {a \in S : G(a) = u} |-> b[x]])]

\* What a step did: the operation, its argument, the value it returned and,
\* for a listener callback, the handlers it invoked, in order (among toggle,
\* _execute_quick_cast and _execute_macro); for a call that an exception
\* leaves, ret is the name of the exception and invoked the method it left
Step(op, arg, ret, invoked) ==
    [op |-> op, arg |-> arg, ret |-> ret, invoked |-> invoked]

Call(op, arg, ret) == Step(op, arg, ret, <<>>)

\* ---------------------------------------------------------------- backends

\* self.use_direct_input and self.direct_input.available
DirectSelected == use_direct_input /\ WINDOWS_AVAILABLE

Ev(b, c, a) == [backend |-> b, call |-> c, arg |-> a]

RECURSIVE Reverse(_)
Reverse(q) == IF q = <<>> THEN <<>> ELSE Append(Reverse(Tail(q)), Head(q))

RECURSIVE EvAll(_, _, _)
EvAll(b, c, ks) ==
    IF ks = <<>> THEN <<>> ELSE <<Ev(b, c, Head(ks))>> \o EvAll(b, c, Tail(ks))

\* len(key) == 1 on the key strings of the model
IsChar(key) == key \in {"a", "b", "c", "q", "x", "z"}

\* The keys of the VK_TO_SCANCODE table among the key strings of the model
VK_TO_SCANCODE == {"a", "b", "c", "q", "x", "z", "f9", "ctrl"}

\* DirectInputController.press_key / release_key return True: the lowered
\* key is in the table or is a single character; otherwise they return
\* False and send nothing
DirectResolves(key) ==
    Lower(key) \in VK_TO_SCANCODE \/ IsChar(Lower(key))

\* keyboard_controller.press / release (pynput Controller) accept a key
\* string only when it is a single character and raise ValueError for any
\* other string; the engine passes the strings of the settings as they are
PynputResolves(key) == IsChar(key)

\* Whether backend call e returns (a call on the DirectInput controller
\* always does, a mouse click on either backend does)
Returns(e) ==
    e.backend = "direct" \/ e.call = "click" \/ PynputResolves(e.arg)

\* The calls of a sequence that are made when every call is made only after
\* the one before it has returned: all of them, or those up to the first
\* one that raises
RECURSIVE Returned(_)
Returned(calls) ==
    IF calls = <<>> \/ ~Returns(Head(calls)) THEN <<>>
    ELSE <<Head(calls)>> \o Returned(Tail(calls))

\* Backend call e suspends its caller: tap_key and click_mouse of the
\* DirectInput controller call time.sleep between the down and the up event
SleepsInside(e) == e.backend = "direct" /\ e.call \in {"tap_key", "click_mouse"}

\* _execute_quick_cast(hotkey): one left click at the cursor
ExecuteQuickCast(hotkey) ==
    IF DirectSelected THEN <<Ev("direct", "click_mouse", "left")>>
    ELSE IF PYNPUT_AVAILABLE THEN <<Ev("pynput", "click", "left")>>
    ELSE <<>>

\* The tap of one auto-cast skill in _auto_cast_loop
AutoCastTap(hotkey) ==
    IF hotkey = "" THEN <<>>
    ELSE IF DirectSelected THEN <<Ev("direct", "tap_key", hotkey)>>
    ELSE IF PYNPUT_AVAILABLE
         THEN <<Ev("pynput", "press", hotkey), Ev("pynput", "release", hotkey)>>
    ELSE <<>>

\* _execute_action(action): the backend calls made before the action's wait
ActionBefore(action) ==
    CASE action.type = "key_press" ->
           IF action.key = "" THEN <<>>
           ELSE IF DirectSelected THEN <<Ev("direct", "tap_key", action.key)>>
           ELSE IF PYNPUT_AVAILABLE
                THEN <<Ev("pynput", "press", action.key),
                       Ev("pynput", "release", action.key)>>
           ELSE <<>>
      [] action.type = "key_hold" ->
           IF action.key = "" THEN <<>>
           ELSE IF DirectSelected THEN <<Ev("direct", "press_key", action.key)>>
           ELSE IF PYNPUT_AVAILABLE THEN <<Ev("pynput", "press", action.key)>>
           ELSE <<>>
      [] action.type = "mouse_click" ->
           IF DirectSelected THEN <<Ev("direct", "click_mouse", action.button)>>
           ELSE IF PYNPUT_AVAILABLE
                THEN <<Ev("pynput", "click",
                          IF action.button = "left" THEN "left" ELSE "right")>>
           ELSE <<>>
      [] action.type = "combo" ->
           IF DirectSelected
           THEN EvAll("direct", "press_key", action.keys)
                \o EvAll("direct", "release_key", Reverse(action.keys))
           ELSE IF PYNPUT_AVAILABLE
                THEN EvAll("pynput", "press", action.keys)
                     \o EvAll("pynput", "release", Reverse(action.keys))
           ELSE <<>>
      [] OTHER -> <<>>

\* _execute_action(action): the backend calls made after the action's wait,
\* in the branch the test before the wait has chosen
ActionAfterOn(action, direct) ==
    CASE action.type = "key_hold" ->
           IF action.key = "" THEN <<>>
           ELSE IF direct THEN <<Ev("direct", "release_key", action.key)>>
           ELSE IF PYNPUT_AVAILABLE THEN <<Ev("pynput", "release", action.key)>>
           ELSE <<>>
      [] OTHER -> <<>>

ActionAfter(action) == ActionAfterOn(action, DirectSelected)

\* The backends a sequence of calls went to
Backends(calls) == {calls[j].backend : j \in 1..Len(calls)}

\* _execute_action(action) is left by an exception of the backend before
\* the action's wait
ActionRaises(action) ==
    Returned(ActionBefore(action)) # ActionBefore(action)

\* The tap of an auto-cast skill is left by an exception of the backend
AutoCastTapRaises(hotkey) ==
    Returned(AutoCastTap(hotkey)) # AutoCastTap(hotkey)

\* ------------------------------------------------------------ engine parts

Min(S) == CHOOSE x \in S : \A y \in S : x <= y

\* threading.Thread.is_alive() of the thread _auto_cast_thread refers to
AutoCastThreadAlive ==
    auto_cast_thread /\ \E a \in BagToSet(autos) : a.held

\* _start_auto_cast_thread without the test of the current thread
StartAutoCastThreadAlways ==
    /\ BagCardinality(autos) < MaxAuto
    /\ stop_auto_cast' = FALSE
    /\ auto_cast_thread' = TRUE
    /\ autos' = Unheld(autos) (+) One(NewAuto)

\* _start_auto_cast_thread
StartAutoCastThread ==
    IF AutoCastThreadAlive
    THEN UNCHANGED autoVars
    ELSE /\ BagCardinality(autos) < MaxAuto
         /\ stop_auto_cast' = FALSE
         /\ auto_cast_thread' = TRUE
         /\ autos' = Unheld(autos) (+) One(NewAuto)

\* _stop_auto_cast_thread calls join(timeout=1) when the handle is set; on a
\* thread that is alive the caller is suspended until the thread has ended
\* or the second is over
StopAutoCastThreadWaits == AutoCastThreadAlive

\* _stop_auto_cast_thread: the join waits at most one second and the thread
\* may outlive it; the handle is dropped either way
StopAutoCastThread ==
    /\ stop_auto_cast' = TRUE
    /\ auto_cast_thread' = FALSE
    /\ autos' = Signalled(autos)

\* _load_settings
LoadEngineSettings ==
    /\ settings' = LoadSettings(settings, disk)
    /\ quick_cast_enabled' = GetQuickCastEnabled(settings')
    /\ auto_cast_enabled' = GetAutoCastEnabled(settings')
    /\ UNCHANGED disk

\* _start_keyboard_listener (reached only with pynput available)
StartKeyboardListener ==
    /\ keyboard_listener' = TRUE
    /\ listeners' = listeners + 1

\* _stop_keyboard_listener
StopKeyboardListener ==
    IF keyboard_listener
    THEN keyboard_listener' = FALSE /\ listeners' = listeners - 1
    ELSE UNCHANGED listenerVars

\* _stop_all_macros without the clear
StopAllMacrosNoClear ==
    UNCHANGED macroVars

\* _stop_all_macros: the dictionary is cleared, the threads are left alone
StopAllMacros ==
    /\ macro_threads' = {}
    /\ UNCHANGED tasks

\* toggle() that suspends by detaching the keyboard listener as well
DoToggleDetach ==
    /\ IF enabled
       THEN enabled' = FALSE /\ StopAutoCastThread /\ StopKeyboardListener
       ELSE /\ enabled' = TRUE
            /\ IF auto_cast_enabled THEN StartAutoCastThread
               ELSE UNCHANGED autoVars
            /\ UNCHANGED listenerVars
    /\ abandoned' = IF enabled THEN Interrupted ELSE abandoned
    /\ UNCHANGED running

\* The body of toggle(); the value returned is enabled'
DoToggle ==
    /\ IF enabled
       THEN enabled' = FALSE /\ StopAutoCastThread
       ELSE /\ enabled' = TRUE
            /\ IF auto_cast_enabled THEN StartAutoCastThread
               ELSE UNCHANGED autoVars
    /\ abandoned' = IF enabled THEN Interrupted ELSE abandoned
    /\ UNCHANGED <<running, listenerVars>>

\* The index at which a for loop over a sequence reaches its break, given
\* for each element whether the test before the break holds; 0 when the
\* loop ends without it
FirstIndex(hits) ==
    IF \E i \in 1..Len(hits) : hits[i]
    THEN Min({i \in 1..Len(hits) : hits[i]})
    ELSE 0

\* if key_char and key_char.lower() == hotkey.lower()
CharMatches(key_char, hotkey) ==
    key_char # None /\ key_char # "" /\ Lower(key_char) = Lower(hotkey)

\* _handle_quick_cast(key, key_char): the index of the first slot whose
\* hotkey matches, 0 when none does
QuickCastHit(key_char) ==
    LET hotkeys == GetQuickCastHotkeys(settings)
    IN  FirstIndex([i \in 1..Len(hotkeys) |->
                       CharMatches(key_char, hotkeys[i][2])])

\* _handle_quick_cast(key, key_char): the backend calls it makes
HandleQuickCast(key_char) ==
    LET hotkeys == GetQuickCastHotkeys(settings)
        i == QuickCastHit(key_char)
    IN  IF i = 0 THEN <<>> ELSE ExecuteQuickCast(hotkeys[i][2])

\* _execute_macro without the test for a running macro of that name
ExecuteMacroNoGuard(macro) ==
    /\ BagCardinality(tasks) < MaxTasks
    /\ tasks' = tasks (+) One(NewTask(macro))
    /\ macro_threads' = macro_threads \cup {macro.name}

\* _execute_macro(macro)
ExecuteMacro(macro) ==
    IF macro.name \in macro_threads
    THEN UNCHANGED macroVars
    ELSE /\ BagCardinality(tasks) < MaxTasks
         /\ tasks' = tasks (+) One(NewTask(macro))
         /\ macro_threads' = macro_threads \cup {macro.name}

\* _handle_macro_hotkey(key_char) without the break: the index of the last
\* macro whose hotkey matches, 0 when none does
MacroHitLast(key_char) ==
    LET macros == GetMacros(settings)
        hits == {i \in 1..Len(macros) : CharMatches(key_char, macros[i].hotkey)}
    IN  IF hits = {} THEN 0 ELSE CHOOSE i \in hits : \A j \in hits : j <= i

\* _handle_macro_hotkey(key_char): the index of the first macro whose hotkey
\* matches, 0 when none does
MacroHit(key_char) ==
    LET macros == GetMacros(settings)
    IN  FirstIndex([i \in 1..Len(macros) |->
                       CharMatches(key_char, macros[i].hotkey)])

\* _handle_macro_hotkey(key_char)
HandleMacroHotkey(key_char) ==
    LET i == MacroHit(key_char)
    IN  IF i = 0 THEN UNCHANGED macroVars
        ELSE ExecuteMacro(GetMacros(settings)[i])

\* _handle_key_press without the return that follows toggle()
HandleKeyPressNoReturn(key) ==
    LET key_char == KeyChar(key)
        toggles == KeyMatches(key, GetGlobalHotkey(settings))
    IN  /\ IF toggles THEN DoToggle
           ELSE UNCHANGED <<lifecycleVars, autoVars, listenerVars, abandoned>>
        /\ injected' = IF quick_cast_enabled THEN HandleQuickCast(key_char)
                       ELSE <<>>
        /\ HandleMacroHotkey(key_char)
        /\ call' = Step("on_press", key, None,
               (IF toggles THEN <<"toggle">> ELSE <<>>)
               \o (IF quick_cast_enabled /\ QuickCastHit(key_char) # 0
                   THEN <<"_execute_quick_cast">> ELSE <<>>)
               \o (IF MacroHit(key_char) # 0
                   THEN <<"_execute_macro">> ELSE <<>>))

\* _handle_key_press(key)
HandleKeyPress(key) ==
    LET key_char == KeyChar(key) IN
    IF KeyMatches(key, GetGlobalHotkey(settings))
    THEN /\ DoToggle
         /\ injected' = <<>>
         /\ UNCHANGED macroVars
         /\ call' = Step("on_press", key, None, <<"toggle">>)
    ELSE /\ UNCHANGED <<lifecycleVars, autoVars, listenerVars, abandoned>>
         /\ injected' = IF quick_cast_enabled THEN HandleQuickCast(key_char)
                        ELSE <<>>
         /\ HandleMacroHotkey(key_char)
         /\ call' = Step("on_press", key, None,
                (IF quick_cast_enabled /\ QuickCastHit(key_char) # 0
                 THEN <<"_execute_quick_cast">> ELSE <<>>)
                \o (IF MacroHit(key_char) # 0
                    THEN <<"_execute_macro">> ELSE <<>>))

\* ------------------------------------------------------- the public API

\* start() without the test of PYNPUT_AVAILABLE
StartUnchecked ==
    /\ IF running
       THEN /\ call' = Call("start", None, TRUE)
            /\ UNCHANGED <<configVars, lifecycleVars, quick_cast_enabled,
                           auto_cast_enabled, autoVars, listenerVars>>
       ELSE /\ running' = TRUE
            /\ enabled' = TRUE
            /\ LoadEngineSettings
            /\ StartKeyboardListener
            /\ IF auto_cast_enabled' THEN StartAutoCastThread
               ELSE UNCHANGED autoVars
            /\ call' = Call("start", None, TRUE)
    /\ injected' = <<>>
    /\ UNCHANGED <<platformVars, macroVars, abandoned>>

\* start() without the assignment enabled = True
StartKeepsEnabled ==
    /\ IF ~PYNPUT_AVAILABLE
       THEN /\ call' = Call("start", None, FALSE)
            /\ UNCHANGED <<configVars, lifecycleVars, quick_cast_enabled,
                           auto_cast_enabled, autoVars, listenerVars>>
       ELSE IF running
       THEN /\ call' = Call("start", None, TRUE)
            /\ UNCHANGED <<configVars, lifecycleVars, quick_cast_enabled,
                           auto_cast_enabled, autoVars, listenerVars>>
       ELSE /\ running' = TRUE
            /\ UNCHANGED enabled
            /\ LoadEngineSettings
            /\ StartKeyboardListener
            /\ IF auto_cast_enabled' THEN StartAutoCastThread
               ELSE UNCHANGED autoVars
            /\ call' = Call("start", None, TRUE)
    /\ injected' = <<>>
    /\ UNCHANGED <<platformVars, macroVars, abandoned>>

\* start(); when MacroConfig.load raises, the exception leaves
\* _load_settings and start() after the assignments to running and enabled
Start ==
    /\ IF ~PYNPUT_AVAILABLE
       THEN /\ call' = Call("start", None, FALSE)
            /\ UNCHANGED <<configVars, lifecycleVars, quick_cast_enabled,
                           auto_cast_enabled, autoVars, listenerVars>>
       ELSE IF running
       THEN /\ call' = Call("start", None, TRUE)
            /\ UNCHANGED <<configVars, lifecycleVars, quick_cast_enabled,
                           auto_cast_enabled, autoVars, listenerVars>>
       ELSE IF LoadRaises(disk)
       THEN /\ running' = TRUE
            /\ enabled' = TRUE
            /\ settings' = LoadSettings(settings, disk)
            /\ call' = Step("start", None, LoadResult(disk),
                            <<"_load_settings">>)
            /\ UNCHANGED <<disk, quick_cast_enabled, auto_cast_enabled,
                           autoVars, listenerVars>>
       ELSE /\ running' = TRUE
            /\ enabled' = TRUE
            /\ LoadEngineSettings
            /\ StartKeyboardListener
            /\ IF auto_cast_enabled' THEN StartAutoCastThread
               ELSE UNCHANGED autoVars
            /\ call' = Call("start", None, TRUE)
    /\ injected' = <<>>
    /\ UNCHANGED <<platformVars, macroVars, abandoned>>

\* stop()
Stop ==
    /\ running' = FALSE
    /\ enabled' = FALSE
    /\ StopAutoCastThread
    /\ StopKeyboardListener
    /\ StopAllMacros
    /\ abandoned' = Interrupted
    /\ call' = Call("stop", None, None)
    /\ injected' = <<>>
    /\ UNCHANGED <<platformVars, configVars, quick_cast_enabled,
                   auto_cast_enabled>>

\* toggle() returning the value enabled had when it was called
ToggleReturnsOld ==
    /\ DoToggle
    /\ call' = Call("toggle", None, enabled)
    /\ injected' = <<>>
    /\ UNCHANGED <<platformVars, configVars, quick_cast_enabled,
                   auto_cast_enabled, macroVars>>

\* toggle()
Toggle ==
    /\ DoToggle
    /\ call' = Call("toggle", None, enabled')
    /\ injected' = <<>>
    /\ UNCHANGED <<platformVars, configVars, quick_cast_enabled,
                   auto_cast_enabled, macroVars>>

\* set_direct_input_enabled(enabled): takes effect at the next test of
\* use_direct_input by any thread
SetDirectInputEnabled(b) ==
    /\ use_direct_input' = (b /\ WINDOWS_AVAILABLE)
    /\ call' = Call("set_direct_input_enabled", b, None)
    /\ injected' = <<>>
    /\ UNCHANGED <<PYNPUT_AVAILABLE, WINDOWS_AVAILABLE, configVars,
                   lifecycleVars, quick_cast_enabled, auto_cast_enabled,
                   autoVars, listenerVars, macroVars, abandoned>>

\* reload_settings(): _load_settings and nothing else; an exception of
\* MacroConfig.load leaves it before the two switches are read
ReloadSettings ==
    /\ IF LoadRaises(disk)
       THEN /\ settings' = LoadSettings(settings, disk)
            /\ call' = Step("reload_settings", None, LoadResult(disk),
                            <<"_load_settings">>)
            /\ UNCHANGED <<disk, quick_cast_enabled, auto_cast_enabled>>
       ELSE /\ LoadEngineSettings
            /\ call' = Call("reload_settings", None, None)
    /\ injected' = <<>>
    /\ UNCHANGED <<platformVars, lifecycleVars, autoVars, listenerVars,
                   macroVars, abandoned>>

\* --------------------------------------------------- the listener thread

\* on_press(key) without the test of enabled
OnPressNoGuard(key) ==
    /\ listeners > 0
    /\ HandleKeyPress(key)
    /\ UNCHANGED <<platformVars, configVars, quick_cast_enabled,
                   auto_cast_enabled>>

\* on_press(key), the callback of the keyboard listener
OnPress(key) ==
    /\ listeners > 0
    /\ IF ~enabled
       THEN /\ injected' = <<>>
            /\ call' = Step("on_press", key, None, <<>>)
            /\ UNCHANGED <<lifecycleVars, autoVars, listenerVars, macroVars,
                           abandoned>>
       ELSE HandleKeyPress(key)
    /\ UNCHANGED <<platformVars, configVars, quick_cast_enabled,
                   auto_cast_enabled>>

\* ----------------------------------------------------- the macro threads

\* The history of the thread that takes a step from position t to the
\* positions in bag next (none when it ends): the thread is one of those
\* recorded in abandoned (old), or one of the others at that position.
Moves(t, old, next) ==
    IF old
    THEN /\ CopiesIn(t, abandoned) > 0
         /\ abandoned' = (abandoned (-) One(t)) (+) next
    ELSE /\ CopiesIn(t, tasks) > CopiesIn(t, abandoned)
         /\ UNCHANGED abandoned

\* The position of the thread at t once it has entered _execute_action and
\* made the calls that precede the action's wait
Entered(t) ==
    [t EXCEPT !.phase = "action", !.direct = DirectSelected,
              !.used = @ \cup Backends(ActionBefore(t.actions[t.i]))]

\* The position of the thread at t once _execute_action has returned, in a
\* loop that passes over the action that follows
LeftSkipping(t) ==
    [t EXCEPT !.phase = "check", !.i = @ + 2, !.direct = FALSE,
              !.used = @ \cup Backends(ActionAfterOn(t.actions[t.i], t.direct))]

\* The position of the thread at t once _execute_action has returned
Left(t) ==
    [t EXCEPT !.phase = "check", !.i = @ + 1, !.direct = FALSE,
              !.used = @ \cup Backends(ActionAfterOn(t.actions[t.i], t.direct))]

\* run_macro: the top of the for loop.  With no action left, or with enabled
\* false, the loop is left, the name is popped from _macro_threads and the
\* thread ends; otherwise _execute_action is entered and makes the calls
\* that precede its wait.  An exception raised by one of these calls is
\* caught nowhere: it ends the thread before the pop.
TaskCheck(t) ==
    /\ t.phase = "check"
    /\ IF t.i > Len(t.actions) \/ ~enabled
       THEN /\ macro_threads' = macro_threads \ {t.name}
            /\ tasks' = tasks (-) One(t)
            /\ \E old \in BOOLEAN : Moves(t, old, EmptyBag)
            /\ injected' = <<>>
       ELSE IF ActionRaises(t.actions[t.i])
       THEN /\ tasks' = tasks (-) One(t)
            /\ \E old \in BOOLEAN : Moves(t, old, EmptyBag)
            /\ injected' = Returned(ActionBefore(t.actions[t.i]))
            /\ UNCHANGED macro_threads
       ELSE /\ tasks' = Replace(tasks, t, Entered(t))
            /\ \E old \in BOOLEAN : Moves(t, old, EmptyBag)
            /\ injected' = ActionBefore(t.actions[t.i])
            /\ UNCHANGED macro_threads
    /\ call' = Call("run_macro", None, None)
    /\ UNCHANGED <<platformVars, configVars, lifecycleVars, quick_cast_enabled,
                   auto_cast_enabled, autoVars, listenerVars>>

\* run_macro: _execute_action returns, after its wait and the calls that
\* follow it
TaskAction(t) ==
    /\ t.phase = "action"
    /\ BagIn(t, tasks)
    /\ tasks' = Replace(tasks, t, Left(t))
    /\ \E old \in BOOLEAN : Moves(t, old, One(Left(t)))
    /\ injected' = ActionAfterOn(t.actions[t.i], t.direct)
    /\ call' = Call("run_macro", None, None)
    /\ UNCHANGED <<platformVars, configVars, lifecycleVars, quick_cast_enabled,
                   auto_cast_enabled, autoVars, listenerVars, macro_threads>>

\* --------------------------------------------------- the auto-cast thread

\* _auto_cast_loop with `while True`
AutoWhileTrue(a) ==
    /\ a.pc = "while"
    /\ autos' = Replace(autos, a,
                    [a EXCEPT !.pc = "for", !.i = 1, !.cut = FALSE,
                              !.snapshot = GetAutoCastSkills(settings)])
    /\ injected' = <<>>
    /\ call' = Call("auto_cast_loop", None, None)
    /\ UNCHANGED <<platformVars, configVars, lifecycleVars, quick_cast_enabled,
                   auto_cast_enabled, auto_cast_thread, stop_auto_cast,
                   listenerVars, macroVars, abandoned>>

\* _auto_cast_loop: the while condition, evaluated when the thread starts
\* and after the pause that ends each sweep
AutoWhile(a) ==
    /\ a.pc = "while"
    /\ IF ~stop_auto_cast /\ enabled
       THEN autos' = Replace(autos, a,
                        [a EXCEPT !.pc = "for", !.i = 1, !.cut = FALSE,
                                  !.snapshot = GetAutoCastSkills(settings)])
       ELSE autos' = autos (-) One(a)
    /\ injected' = <<>>
    /\ call' = Call("auto_cast_loop", None, None)
    /\ UNCHANGED <<platformVars, configVars, lifecycleVars, quick_cast_enabled,
                   auto_cast_enabled, auto_cast_thread, stop_auto_cast,
                   listenerVars, macroVars, abandoned>>

\* skill.get("interval_ms", interval_ms)
SkillInterval(skill, interval_ms) ==
    IF "interval_ms" \in DOMAIN skill THEN skill.interval_ms ELSE interval_ms

\* _auto_cast_loop: one pass of the for loop over the skills.  skills is the
\* list object of the settings (get_auto_cast_skills returns the list, not a
\* copy, and add and remove change it in place), and the for loop steps
\* through it by index.  The end of the list or the break leads to the sleep
\* before the next while test; otherwise a skill with a hotkey is tapped and
\* the thread sleeps for the skill's interval, and a skill without one is
\* passed over; an exception raised by the tap ends the thread.  The result
\* recorded for the step is the length in ms of the time.sleep it ends in.
AutoFor(a) ==
    /\ a.pc = "for"
    /\ LET skills == GetAutoCastSkills(settings) IN
         IF a.i > Len(skills) \/ stop_auto_cast \/ ~enabled
         THEN /\ autos' = Replace(autos, a,
                             [a EXCEPT !.pc = "while", !.i = 0,
                                       !.cut = FALSE, !.snapshot = <<>>])
              /\ injected' = <<>>
              /\ call' = Call("auto_cast_loop", None, a.interval_ms)
         ELSE IF AutoCastTapRaises(skills[a.i].hotkey)
         THEN /\ autos' = autos (-) One(a)
              /\ injected' = Returned(AutoCastTap(skills[a.i].hotkey))
              /\ call' = Call("auto_cast_loop", None, None)
         ELSE /\ autos' = Replace(autos, a,
                             [a EXCEPT !.i = @ + 1, !.cut = FALSE])
              /\ injected' = AutoCastTap(skills[a.i].hotkey)
              /\ call' = Call("auto_cast_loop", None,
                              IF skills[a.i].hotkey = "" THEN None
                              ELSE SkillInterval(skills[a.i], a.interval_ms))
    /\ UNCHANGED <<platformVars, configVars, lifecycleVars, quick_cast_enabled,
                   auto_cast_enabled, auto_cast_thread, stop_auto_cast,
                   listenerVars, macroVars, abandoned>>

\* ---------------------------------------------- auto-cast settings (API)

\* set_auto_cast_enabled(b)
SetAutoCastEnabled(b) ==
    /\ auto_cast_enabled' = b
    /\ settings' = [settings EXCEPT !.auto_cast.enabled = b]
    /\ IF b /\ running /\ enabled
       THEN StartAutoCastThread
       ELSE StopAutoCastThread
    /\ call' = Call("set_auto_cast_enabled", b, None)
    /\ injected' = <<>>
    /\ UNCHANGED <<platformVars, disk, lifecycleVars, quick_cast_enabled,
                   listenerVars, macroVars, abandoned>>

\* add_auto_cast_skill(hotkey, interval_ms): the entry is appended to the
\* list of the settings (called here for a hotkey the list does not hold)
AddAutoCastSkill(hotkey, interval_ms) ==
    /\ \A i \in 1..Len(GetAutoCastSkills(settings)) :
         GetAutoCastSkills(settings)[i].hotkey # hotkey
    /\ settings' = [settings EXCEPT !.auto_cast.skills =
                       Append(@, [hotkey |-> hotkey,
                                  interval_ms |-> interval_ms])]
    /\ call' = Call("add_auto_cast_skill", hotkey, None)
    /\ injected' = <<>>
    /\ UNCHANGED <<platformVars, disk, lifecycleVars, quick_cast_enabled,
                   auto_cast_enabled, autoVars, listenerVars, macroVars,
                   abandoned>>

\* list.pop(i)
Pop(q, i) == [j \in 1..(Len(q) - 1) |-> IF j < i THEN q[j] ELSE q[j + 1]]

\* remove_auto_cast_skill(hotkey) without the return after the pop: every
\* entry with the hotkey is dropped
RemoveAutoCastSkillAll(hotkey) ==
    /\ settings' = [settings EXCEPT !.auto_cast.skills =
                       SelectSeq(@, LAMBDA skill : skill.hotkey # hotkey)]
    /\ call' = Call("remove_auto_cast_skill", hotkey,
                    \E i \in 1..Len(GetAutoCastSkills(settings)) :
                        GetAutoCastSkills(settings)[i].hotkey = hotkey)
    /\ injected' = <<>>
    /\ UNCHANGED <<disk, engineVars>>

\* remove_auto_cast_skill(hotkey): the first entry with the hotkey is popped
\* from the list of the settings; the result says whether there was one
RemoveAutoCastSkill(hotkey) ==
    /\ LET skills == GetAutoCastSkills(settings)
           hits == {i \in 1..Len(skills) : skills[i].hotkey = hotkey}
       IN  IF hits # {}
           THEN /\ settings' = [settings EXCEPT !.auto_cast.skills =
                                   Pop(@, Min(hits))]
                /\ call' = Call("remove_auto_cast_skill", hotkey, TRUE)
           ELSE /\ UNCHANGED settings
                /\ call' = Call("remove_auto_cast_skill", hotkey, FALSE)
    /\ injected' = <<>>
    /\ UNCHANGED <<platformVars, disk, lifecycleVars, quick_cast_enabled,
                   auto_cast_enabled, autoVars, listenerVars, macroVars,
                   abandoned>>

\* ------------------------------------------- the DirectInput controllers

\* The two controller classes of win_input.py
Controllers == {"DirectInputController", "FallbackController"}

\* controller.available: WINDOWS_AVAILABLE for a DirectInputController,
\* False for a FallbackController
Available(ctl) == ctl = "DirectInputController" /\ WINDOWS_AVAILABLE

\* The result of a controller method: what it returns, the methods of the
\* controller and the waits it invokes, and the events it hands to SendInput
Outcome(ret, invoked, sent) == [ret |-> ret, invoked |-> invoked, sent |-> sent]

MOUSE_BUTTONS == {"left", "right", "middle"}

\* press_key(key) without the test of available
PressKeyUnguarded(ctl, key) ==
    IF ctl = "FallbackController" THEN Outcome(FALSE, <<>>, <<>>)
    ELSE IF ~DirectResolves(key) THEN Outcome(FALSE, <<>>, <<>>)
    ELSE Outcome(TRUE, <<>>, <<Ev("SendInput", "keydown", Lower(key))>>)

\* press_key(key)
PressKey(ctl, key) ==
    IF ctl = "FallbackController" THEN Outcome(FALSE, <<>>, <<>>)
    ELSE IF ~Available(ctl) THEN Outcome(FALSE, <<>>, <<>>)
    ELSE IF ~DirectResolves(key) THEN Outcome(FALSE, <<>>, <<>>)
    ELSE Outcome(TRUE, <<>>, <<Ev("SendInput", "keydown", Lower(key))>>)

\* release_key(key)
ReleaseKey(ctl, key) ==
    IF ctl = "FallbackController" THEN Outcome(FALSE, <<>>, <<>>)
    ELSE IF ~Available(ctl) THEN Outcome(FALSE, <<>>, <<>>)
    ELSE IF ~DirectResolves(key) THEN Outcome(FALSE, <<>>, <<>>)
    ELSE Outcome(TRUE, <<>>, <<Ev("SendInput", "keyup", Lower(key))>>)

\* tap_key(key) that goes on to release_key whatever press_key returned
TapKeyAlways(ctl, key) ==
    IF ctl = "FallbackController" THEN Outcome(FALSE, <<>>, <<>>)
    ELSE Outcome(ReleaseKey(ctl, key).ret,
                 <<"press_key", "time.sleep", "release_key">>,
                 PressKey(ctl, key).sent \o ReleaseKey(ctl, key).sent)

\* tap_key(key): press_key; when it returned False so does tap_key, else
\* time.sleep(duration) and the result of release_key
TapKey(ctl, key) ==
    IF ctl = "FallbackController" THEN Outcome(FALSE, <<>>, <<>>)
    ELSE IF ~PressKey(ctl, key).ret
         THEN Outcome(FALSE, <<"press_key">>, PressKey(ctl, key).sent)
    ELSE Outcome(ReleaseKey(ctl, key).ret,
                 <<"press_key", "time.sleep", "release_key">>,
                 PressKey(ctl, key).sent \o ReleaseKey(ctl, key).sent)

\* click_mouse(button)
ClickMouse(ctl, button) ==
    IF ctl = "FallbackController" THEN Outcome(FALSE, <<>>, <<>>)
    ELSE IF ~Available(ctl) THEN Outcome(FALSE, <<>>, <<>>)
    ELSE IF button \notin MOUSE_BUTTONS THEN Outcome(FALSE, <<>>, <<>>)
    ELSE Outcome(TRUE, <<"time.sleep">>,
                 <<Ev("SendInput", "mousedown", button),
                   Ev("SendInput", "mouseup", button)>>)

\* The name a call of method op on a controller of class ctl is recorded by
OpName(ctl, op) == ctl \o "." \o op

\* A call of a method of a controller from outside the engine
ControllerCall(ctl, op, arg, outcome) ==
    /\ call' = Step(OpName(ctl, op), arg, outcome.ret, outcome.invoked)
    /\ injected' = outcome.sent
    /\ UNCHANGED <<configVars, engineVars>>

CallPressKey(ctl, key) == ControllerCall(ctl, "press_key", key, PressKey(ctl, key))
CallReleaseKey(ctl, key) == ControllerCall(ctl, "release_key", key, ReleaseKey(ctl, key))
CallTapKey(ctl, key) == ControllerCall(ctl, "tap_key", key, TapKey(ctl, key))
CallClickMouse(ctl, button) ==
    ControllerCall(ctl, "click_mouse", button, ClickMouse(ctl, button))

\* ------------------------------------------------- the settings store

\* MacroConfig.add_auto_cast_skill(skill): appended, whatever the list holds
ConfigAddAutoCastSkill(skill) ==
    /\ Len(GetAutoCastSkills(settings)) < MaxSkills
    /\ settings' = [settings EXCEPT !.auto_cast.skills = Append(@, skill)]
    /\ call' = Call("add_auto_cast_skill", skill.hotkey, None)
    /\ injected' = <<>>
    /\ UNCHANGED <<disk, engineVars>>

\* add_macro(name, hotkey, actions): appended, whatever the list holds
AddMacro(name, hotkey, actions) ==
    /\ Len(GetMacros(settings)) < MaxMacros
    /\ settings' = [settings EXCEPT !.macros = Append(@, Macro(name, hotkey, actions))]
    /\ call' = Call("add_macro", name, None)
    /\ injected' = <<>>
    /\ UNCHANGED <<disk, engineVars>>

\* remove_macro(name): the first macro of the name is popped; the result
\* says whether there was one
RemoveMacro(name) ==
    /\ LET macros == GetMacros(settings)
           hits == {i \in 1..Len(macros) : macros[i].name = name}
       IN  IF hits # {}
           THEN /\ settings' = [settings EXCEPT !.macros = Pop(@, Min(hits))]
                /\ call' = Call("remove_macro", name, TRUE)
           ELSE /\ UNCHANGED settings
                /\ call' = Call("remove_macro", name, FALSE)
    /\ injected' = <<>>
    /\ UNCHANGED <<disk, engineVars>>

\* MacroConfig.set_quick_cast_enabled(b), MacroConfig.set_auto_cast_enabled(b)
ConfigSetQuickCastEnabled(b) ==
    /\ settings' = [settings EXCEPT !.quick_cast.enabled = b]
    /\ call' = Call("config.set_quick_cast_enabled", b, None)
    /\ injected' = <<>>
    /\ UNCHANGED <<disk, engineVars>>

ConfigSetAutoCastEnabled(b) ==
    /\ settings' = [settings EXCEPT !.auto_cast.enabled = b]
    /\ call' = Call("config.set_auto_cast_enabled", b, None)
    /\ injected' = <<>>
    /\ UNCHANGED <<disk, engineVars>>

\* MacroConfig.save(): the file is written from the settings, or (ok false)
\* the open fails with an IOError and the file stays as it is
Save(ok) ==
    /\ disk' = IF ok THEN Dump(settings) ELSE disk
    /\ call' = Call("save", None, ok)
    /\ injected' = <<>>
    /\ UNCHANGED <<settings, engineVars>>

\* MacroConfig.load(): it returns True or False, or an exception leaves it
Load ==
    /\ settings' = LoadSettings(settings, disk)
    /\ call' = IF LoadResult(disk) \in {"True", "False"}
               THEN Call("load", None, LoadResult(disk) = "True")
               ELSE Call("load raises", None, LoadResult(disk))
    /\ injected' = <<>>
    /\ UNCHANGED <<disk, engineVars>>

\* MacroConfig.__init__ on the same path: a fresh instance
NewConfig ==
    /\ settings' = DefaultSettings
    /\ call' = Call("MacroConfig.__init__", None, None)
    /\ injected' = <<>>
    /\ UNCHANGED <<disk, engineVars>>

\* The file is removed, replaced or made unreadable from outside the program
EditFile(file) ==
    /\ disk' = file
    /\ call' = Call("edit file", None, None)
    /\ injected' = <<>>
    /\ UNCHANGED <<settings, engineVars>>

\* ------------------------------------------------------------ specification

\* The macros and the auto-cast skill of the settings the engine is built on
\* (added through add_macro and add_auto_cast_skill): M1 shares its hotkey
\* with the quick-cast slot skill_1.
M1 == Macro("m", "q", <<DelayAction, KeyPressAction("a")>>)
M2 == Macro("n", "X", <<KeyHoldAction("b")>>)
Skill1 == [hotkey |-> "z", interval_ms |-> 100]

\* The settings in memory when the engine is constructed: the defaults with
\* the macros and the skill above, and a global hotkey that is a key of its
\* own ("f9") or the key of skill_1 and M1 ("q").
InitialSettings ==
    { [DefaultSettings EXCEPT !.macros = <<M1, M2>>,
                              !.auto_cast.skills = <<Skill1>>,
                              !.global_hotkey = g] : g \in {"f9", "q"} }

\* A settings file written by save() from settings st after the two feature
\* switches were set the other way round
SavedFile(st) ==
    [st EXCEPT !.quick_cast.enabled = FALSE, !.auto_cast.enabled = TRUE]

\* <<PYNPUT_AVAILABLE, WINDOWS_AVAILABLE>>: Windows with pynput installed,
\* or a platform with neither
Platforms ==
    { <<TRUE, TRUE>>, <<FALSE, FALSE>> }

\* MacroEngine.__init__
Init ==
    /\ \E p \in Platforms :
         /\ PYNPUT_AVAILABLE = p[1]
         /\ WINDOWS_AVAILABLE = p[2]
         /\ use_direct_input = p[2]
    /\ settings \in InitialSettings
    /\ \E e \in BOOLEAN :
         disk = IF e THEN Dump(SavedFile(settings)) ELSE NoFile
    /\ running = FALSE
    /\ enabled = FALSE
    /\ quick_cast_enabled = FALSE
    /\ auto_cast_enabled = FALSE
    /\ auto_cast_thread = FALSE
    /\ stop_auto_cast = FALSE
    /\ keyboard_listener = FALSE
    /\ listeners = 0
    /\ macro_threads = {}
    /\ tasks = EmptyBag
    /\ autos = EmptyBag
    /\ abandoned = EmptyBag
    /\ call = Call("init", None, None)
    /\ injected = <<>>

Next ==
    \/ Start
    \/ Stop
    \/ Toggle
    \/ \E key \in Keys : OnPress(key)
    \/ \E t \in BagToSet(tasks) : TaskCheck(t)
    \/ \E t \in BagToSet(tasks) : TaskAction(t)
    \/ \E a \in BagToSet(autos) : AutoWhile(a)
    \/ \E a \in BagToSet(autos) : AutoFor(a)

Spec == Init /\ [][Next]_vars

\* ------------------------------------------- specification: macro runs

\* Macros whose actions name keys that a backend cannot resolve: "ctrl" is
\* in the scan-code table and is not a single character, "home" is neither.
M3 == Macro("c", "q", <<ComboAction(<<"ctrl", "c">>), KeyPressAction("a")>>)
M4 == Macro("k", "X", <<KeyPressAction("home"), KeyHoldAction("b")>>)

MacroSettings == [DefaultSettings EXCEPT !.macros = <<M3, M4>>]

\* <<PYNPUT_AVAILABLE, WINDOWS_AVAILABLE>>: pynput installed, on Windows
\* (DirectInput selected) or elsewhere (pynput controllers used)
MacroPlatforms ==
    { <<TRUE, TRUE>>, <<TRUE, FALSE>> }

\* MacroEngine.__init__: the fields of the engine
Constructed ==
    /\ running = FALSE
    /\ enabled = FALSE
    /\ quick_cast_enabled = FALSE
    /\ auto_cast_enabled = FALSE
    /\ auto_cast_thread = FALSE
    /\ stop_auto_cast = FALSE
    /\ keyboard_listener = FALSE
    /\ listeners = 0
    /\ macro_threads = {}
    /\ tasks = EmptyBag
    /\ autos = EmptyBag
    /\ abandoned = EmptyBag
    /\ call = Call("init", None, None)
    /\ injected = <<>>

MacroInit ==
    /\ \E p \in MacroPlatforms :
         /\ PYNPUT_AVAILABLE = p[1]
         /\ WINDOWS_AVAILABLE = p[2]
         /\ use_direct_input = p[2]
    /\ settings = MacroSettings
    /\ disk = NoFile
    /\ Constructed

MacroNext ==
    \/ Start
    \/ Stop
    \/ Toggle
    \/ \E key \in Keys : OnPress(key)
    \/ \E t \in BagToSet(tasks) : TaskCheck(t)
    \/ \E t \in BagToSet(tasks) : TaskAction(t)

\* Every position a thread of M3 or M4 can be at
TaskPositions ==
    { [phase |-> ph, name |-> m.name, actions |-> m.actions, i |-> i,
       direct |-> d, used |-> u] :
        ph \in {"check", "action"}, m \in {M3, M4}, i \in 1..3,
        d \in BOOLEAN, u \in SUBSET {"direct", "pynput"} }

\* A macro thread is a daemon thread the interpreter keeps scheduling, and
\* every wait of an action is finite: a thread that can take its next step
\* takes it.
MacroFairness ==
    \A t \in TaskPositions :
        WF_vars(TaskCheck(t)) /\ WF_vars(TaskAction(t))

MacroSpec == MacroInit /\ [][MacroNext]_vars /\ MacroFairness

\* ------------------------------------- specification: backend selection

\* A macro that holds a key, waits and presses another key: characters, which
\* both backends accept
M5 == Macro("s", "q", <<KeyHoldAction("a"), DelayAction, KeyPressAction("b")>>)

SwitchSettings == [DefaultSettings EXCEPT !.macros = <<M5>>]

SwitchInit ==
    /\ \E p \in MacroPlatforms :
         /\ PYNPUT_AVAILABLE = p[1]
         /\ WINDOWS_AVAILABLE = p[2]
         /\ use_direct_input = p[2]
    /\ settings = SwitchSettings
    /\ disk = NoFile
    /\ Constructed

SwitchNext ==
    \/ Start
    \/ Stop
    \/ Toggle
    \/ \E key \in Keys : OnPress(key)
    \/ \E t \in BagToSet(tasks) : TaskCheck(t)
    \/ \E t \in BagToSet(tasks) : TaskAction(t)
    \/ \E b \in BOOLEAN : SetDirectInputEnabled(b)

SwitchSpec == SwitchInit /\ [][SwitchNext]_vars

\* ---------------------------------------- specification: key dispatch

\* Two macros on one hotkey, written in different case, and a macro and a
\* quick-cast slot on a named key; the global hotkey is a key of its own
D1 == Macro("first", "X", <<DelayAction>>)
D2 == Macro("second", "x", <<KeyPressAction("a")>>)
D3 == Macro("named", "f9", <<KeyPressAction("b")>>)

DispatchSettings ==
    [DefaultSettings EXCEPT !.macros = <<D1, D2, D3>>,
                            !.quick_cast.hotkeys[6] = <<"skill_6", "f9">>,
                            !.global_hotkey = "f10"]

\* The key events: the character of D1 and D2 in either case, a character
\* of a quick-cast slot, the named key of D3 and skill_6
DispatchKeys == {CharKey("x"), CharKey("X"), CharKey("q"), SpecialKey("f9")}

DispatchInit ==
    /\ \E p \in MacroPlatforms :
         /\ PYNPUT_AVAILABLE = p[1]
         /\ WINDOWS_AVAILABLE = p[2]
         /\ use_direct_input = p[2]
    /\ settings = DispatchSettings
    /\ disk = NoFile
    /\ Constructed

DispatchNext ==
    \/ Start
    \/ Stop
    \/ Toggle
    \/ \E key \in DispatchKeys : OnPress(key)
    \/ \E t \in BagToSet(tasks) : TaskCheck(t)
    \/ \E t \in BagToSet(tasks) : TaskAction(t)

DispatchSpec == DispatchInit /\ [][DispatchNext]_vars

\* --------------------------------- specification: engine life cycle

\* The engine of DispatchSettings.  The settings file at the first start() is
\* absent or holds bytes that are not UTF-8; the keys pressed are the global
\* hotkey, hotkeys of macros and an unbound key.
LifecycleInit ==
    /\ \E p \in MacroPlatforms \cup {<<FALSE, FALSE>>} :
         /\ PYNPUT_AVAILABLE = p[1]
         /\ WINDOWS_AVAILABLE = p[2]
         /\ use_direct_input = p[2]
    /\ settings = DispatchSettings
    /\ disk \in {NoFile, BadFile("undecodable")}
    /\ Constructed

LifecycleNext ==
    \/ Start
    \/ Stop
    \/ Toggle
    \/ \E key \in {SpecialKey("f10"), CharKey("x"), CharKey("q")} : OnPress(key)
    \/ \E t \in BagToSet(tasks) : TaskCheck(t)
    \/ \E t \in BagToSet(tasks) : TaskAction(t)

LifecycleSpec == LifecycleInit /\ [][LifecycleNext]_vars

\* ------------------------------------------- specification: held keys

\* A macro that holds a key, and a macro with a combo of a character and a
\* named key ("ctrl" is in the scan-code table and is not a single character)
H1 == Macro("h", "q", <<KeyHoldAction("b"), KeyPressAction("a")>>)
H2 == Macro("c", "X", <<ComboAction(<<"c", "ctrl">>)>>)

HoldSettings == [DefaultSettings EXCEPT !.macros = <<H1, H2>>]

HoldInit ==
    /\ \E p \in MacroPlatforms :
         /\ PYNPUT_AVAILABLE = p[1]
         /\ WINDOWS_AVAILABLE = p[2]
         /\ use_direct_input = p[2]
    /\ settings = HoldSettings
    /\ disk = NoFile
    /\ Constructed

HoldNext ==
    \/ Start
    \/ Stop
    \/ Toggle
    \/ \E key \in Keys : OnPress(key)
    \/ \E t \in BagToSet(tasks) : TaskCheck(t)
    \/ \E t \in BagToSet(tasks) : TaskAction(t)

HoldSpec == HoldInit /\ [][HoldNext]_vars

\* --------------------------------------------- specification: auto-cast

\* The auto-cast list the engine is built on: an entry with an interval of
\* its own and an entry without one (read from a settings file; the default
\* interval applies to it).  Added while the engine runs: a named key, which
\* is in the scan-code table and is not a single character.
Skill2 == [hotkey |-> "z", interval_ms |-> 5000]
Skill3 == [hotkey |-> "b"]
AddedHotkey == "f9"
AddedInterval == 2000

AutoSettings == [DefaultSettings EXCEPT !.auto_cast.skills = <<Skill2, Skill3>>]

AutoInit ==
    /\ \E p \in MacroPlatforms :
         /\ PYNPUT_AVAILABLE = p[1]
         /\ WINDOWS_AVAILABLE = p[2]
         /\ use_direct_input = p[2]
    /\ settings = AutoSettings
    /\ disk = NoFile
    /\ Constructed

AutoNext ==
    \/ Start
    \/ Stop
    \/ Toggle
    \/ \E b \in BOOLEAN : SetAutoCastEnabled(b)
    \/ AddAutoCastSkill(AddedHotkey, AddedInterval)
    \/ \E h \in {Skill2.hotkey, AddedHotkey} : RemoveAutoCastSkill(h)
    \/ \E a \in BagToSet(autos) : AutoWhile(a)
    \/ \E a \in BagToSet(autos) : AutoFor(a)

AutoSpec == AutoInit /\ [][AutoNext]_vars

\* ------------------------------------ specification: reloading settings

\* The engine with the auto-cast list of AutoSettings and no settings file;
\* the file is written by save_settings() and read by reload_settings()
ReloadInit ==
    /\ \E p \in MacroPlatforms :
         /\ PYNPUT_AVAILABLE = p[1]
         /\ WINDOWS_AVAILABLE = p[2]
         /\ use_direct_input = p[2]
    /\ settings = AutoSettings
    /\ disk = NoFile
    /\ Constructed

ReloadNext ==
    \/ Start
    \/ Stop
    \/ Toggle
    \/ \E b \in BOOLEAN : SetAutoCastEnabled(b)
    \/ \E ok \in BOOLEAN : Save(ok)
    \/ ReloadSettings
    \/ \E a \in BagToSet(autos) : AutoWhile(a)
    \/ \E a \in BagToSet(autos) : AutoFor(a)

ReloadSpec == ReloadInit /\ [][ReloadNext]_vars

\* ------------------------------------------ specification: shutdown

\* The engine with macro M1 and one auto-cast entry, with auto-cast switched
\* on (start() starts the loop), on Windows with pynput installed
ShutdownSettings ==
    [DefaultSettings EXCEPT !.macros = <<M1>>,
                            !.auto_cast.skills = <<Skill2>>,
                            !.auto_cast.enabled = TRUE]

ShutdownInit ==
    /\ PYNPUT_AVAILABLE = TRUE
    /\ WINDOWS_AVAILABLE = TRUE
    /\ use_direct_input = TRUE
    /\ settings = ShutdownSettings
    /\ disk = NoFile
    /\ Constructed

\* A step of a macro thread, of an auto-cast thread
MacroThreadStep == \E t \in BagToSet(tasks) : TaskCheck(t) \/ TaskAction(t)
AutoThreadStep == \E a \in BagToSet(autos) : AutoWhile(a) \/ AutoFor(a)

ShutdownNext ==
    \/ Start
    \/ Stop
    \/ Toggle
    \/ OnPress(CharKey(M1.hotkey))
    \/ MacroThreadStep
    \/ AutoThreadStep

\* The threads are daemon threads the interpreter keeps scheduling, and
\* every time.sleep is finite: while some macro thread can take a step one
\* of them does, and likewise for the auto-cast threads.
ShutdownFairness ==
    WF_vars(MacroThreadStep) /\ WF_vars(AutoThreadStep)

ShutdownSpec == ShutdownInit /\ [][ShutdownNext]_vars /\ ShutdownFairness

\* ------------------------------------------- specification: the store

\* What the store is filled with: two macros of one name, a third macro, two
\* auto-cast skills of one hotkey (a digit key) and a third skill
StoreMacros ==
    { Macro("m", "x", <<KeyPressAction("a")>>),
      Macro("m", "1", <<ComboAction(<<"ctrl", "c">>), KeyHoldAction("b")>>),
      Macro("n", "y", <<DelayAction>>) }

StoreSkills ==
    { [hotkey |-> "1", interval_ms |-> 100],
      [hotkey |-> "1", interval_ms |-> 2000],
      [hotkey |-> "z", interval_ms |-> 5000] }

\* MacroConfig.__init__ and MacroEngine.__init__, no settings file
StoreInit ==
    /\ \E p \in MacroPlatforms :
         /\ PYNPUT_AVAILABLE = p[1]
         /\ WINDOWS_AVAILABLE = p[2]
         /\ use_direct_input = p[2]
    /\ settings = DefaultSettings
    /\ disk = NoFile
    /\ Constructed

StoreNext ==
    \/ \E m \in StoreMacros : AddMacro(m.name, m.hotkey, m.actions)
    \/ \E m \in StoreMacros : RemoveMacro(m.name)
    \/ \E skill \in StoreSkills : ConfigAddAutoCastSkill(skill)
    \/ \E skill \in StoreSkills : RemoveAutoCastSkill(skill.hotkey)

StoreSpec == StoreInit /\ [][StoreNext]_vars

\* ---------------------------------------- specification: the settings file

\* The macro and the skills written to the file: a digit as hotkey, a skill
\* with and one without an interval of its own
FileMacro == Macro("m", "1", <<KeyPressAction("a"), ComboAction(<<"ctrl", "c">>)>>)
FileSkills == { [hotkey |-> "1", interval_ms |-> 2000], [hotkey |-> "on"] }

\* What the file is changed to from outside: a mapping with the auto-cast
\* section only, a sequence that starts with the pair [macros, []], or a file
\* load cannot read
PartialFile ==
    File([auto_cast |->
            [enabled |-> EmitBool(TRUE), skills |-> <<>>,
             interval_ms |-> EmitInt(100)]])

EditedFiles ==
    {NoFile, PartialFile, PairsFile([macros |-> <<>>])}
      \cup {BadFile(k) : k \in {"unreadable", "undecodable", "malformed",
                                "empty", "scalar"}}

FileInit ==
    /\ \E p \in MacroPlatforms :
         /\ PYNPUT_AVAILABLE = p[1]
         /\ WINDOWS_AVAILABLE = p[2]
         /\ use_direct_input = p[2]
    /\ settings = DefaultSettings
    /\ disk = NoFile
    /\ Constructed

FileNext ==
    \/ /\ GetMacros(settings) = <<>>
       /\ AddMacro(FileMacro.name, FileMacro.hotkey, FileMacro.actions)
    \/ \E skill \in FileSkills :
         /\ GetAutoCastSkills(settings) = <<>>
         /\ ConfigAddAutoCastSkill(skill)
    \/ \E b \in BOOLEAN : ConfigSetQuickCastEnabled(b)
    \/ \E b \in BOOLEAN : ConfigSetAutoCastEnabled(b)
    \/ \E ok \in BOOLEAN : Save(ok)
    \/ Load
    \/ NewConfig
    \/ \E file \in EditedFiles : EditFile(file)

FileSpec == FileInit /\ [][FileNext]_vars

\* ------------------------------------ specification: the controllers

\* The keys and buttons the methods are called with: characters, one of them
\* upper case, names of the table, a name that is not in it; the three
\* buttons and a name that is none
ControllerKeys == {"a", "b", "c", "q", "x", "z", "Q", "f9", "ctrl", "f13"}
ControllerButtons == MOUSE_BUTTONS \cup {"x1"}

\* A platform with or without the SendInput backend; the engine is not used
ControllerInit ==
    /\ \E p \in Platforms :
         /\ PYNPUT_AVAILABLE = p[1]
         /\ WINDOWS_AVAILABLE = p[2]
         /\ use_direct_input = p[2]
    /\ settings = DefaultSettings
    /\ disk = NoFile
    /\ Constructed

ControllerNext ==
    \E ctl \in Controllers :
        \/ \E key \in ControllerKeys : CallPressKey(ctl, key)
        \/ \E key \in ControllerKeys : CallReleaseKey(ctl, key)
        \/ \E key \in ControllerKeys : CallTapKey(ctl, key)
        \/ \E button \in ControllerButtons : CallClickMouse(ctl, button)

ControllerSpec == ControllerInit /\ [][ControllerNext]_vars

\* ------------------------------------------------------------------ claims

Range(q) == {q[i] : i \in 1..Len(q)}

\* The step is the listener callback for a key that matches the global hotkey
ToggleKeyEvent(c) ==
    c.op = "on_press" /\ KeyMatches(c.arg, GetGlobalHotkey(settings))

\* The macro the key of listener callback c is resolved to
HitMacro(c) == GetMacros(settings)[MacroHit(KeyChar(c.arg))]

\* C1: in every reachable state at most one macro thread is executing the
\* action list of a given macro name: no two threads started for the same
\* name are inside _execute_action at the same time.
C1_AtMostOneRunPerName ==
    \A t \in BagToSet(tasks) : \A u \in BagToSet(tasks) :
        (t.name = u.name /\ t.phase = "action" /\ u.phase = "action")
        => (t = u /\ CopiesIn(t, tasks) = 1)

\* C2: a key event that reaches _execute_macro for a macro whose name is in
\* _macro_threads starts no thread, leaves _macro_threads as it is and makes
\* no backend call of the macro's actions.
C2_SecondTriggerIsNoOp ==
    [][ (/\ call'.op = "on_press"
         /\ "_execute_macro" \in Range(call'.invoked)
         /\ HitMacro(call').name \in macro_threads)
        => (/\ UNCHANGED macroVars
            /\ \A j \in 1..Len(injected') :
                 \A k \in 1..Len(HitMacro(call').actions) :
                    LET action == HitMacro(call').actions[k]
                    IN  injected'[j] \notin
                          Range(ActionBefore(action) \o ActionAfter(action)))
      ]_vars

\* A key event has just reached _execute_macro for a macro that is the only
\* one running and is inside an action, so was started by an earlier event.
C2_Witness ==
    /\ call.op = "on_press"
    /\ "_execute_macro" \in Range(call.invoked)
    /\ HitMacro(call).name \in macro_threads
    /\ BagCardinality(tasks) = 1
    /\ \E t \in BagToSet(tasks) :
         t.name = HitMacro(call).name /\ t.phase = "action"

\* C3: when a global-toggle key event has left the engine running and
\* disabled, the next global-toggle key event enables it again.
C3_ToggleEventReEnables ==
    [][ (/\ call.op = "on_press"
         /\ call.invoked = <<"toggle">>
         /\ running /\ ~enabled
         /\ ToggleKeyEvent(call'))
        => enabled' ]_vars

\* C4: a global-toggle key event received while running and enabled sets
\* enabled to false and leaves running true and the listener attached.
C4_ToggleKeyKeepsListener ==
    [][ (ToggleKeyEvent(call') /\ running /\ enabled)
        => (/\ ~enabled'
            /\ running'
            /\ keyboard_listener'
            /\ listeners' = listeners
            /\ listeners' > 0) ]_vars

\* A global-toggle key event has just invoked toggle() in a running engine.
C4_Witness ==
    /\ call.op = "on_press"
    /\ call.invoked = <<"toggle">>
    /\ running /\ ~enabled
    /\ keyboard_listener

\* C5: when stop() returns, running and enabled are false, no listener is
\* attached, the auto-cast stop event is set and the thread handle dropped,
\* and _macro_threads is empty; the macro threads themselves are left as
\* they were.
C5_StopEndsStopped ==
    [][ call'.op = "stop"
        => (/\ ~running' /\ ~enabled'
            /\ ~keyboard_listener' /\ listeners' = 0
            /\ stop_auto_cast' /\ ~auto_cast_thread'
            /\ \A a \in BagToSet(autos') : ~a.held
            /\ macro_threads' = {}
            /\ tasks' = tasks) ]_vars

\* stop() has just returned while a macro thread and the auto-cast thread
\* are still alive.
C5_Witness ==
    /\ call.op = "stop"
    /\ tasks # EmptyBag
    /\ autos # EmptyBag

\* C6: without pynput start() returns False and changes nothing: the engine
\* stays stopped, no listener is attached, no auto-cast thread is started
\* and the settings are not loaded.
C6_StartFailsWithoutListener ==
    [][ (call'.op = "start" /\ ~PYNPUT_AVAILABLE)
        => (/\ call'.ret = FALSE
            /\ ~running'
            /\ UNCHANGED <<platformVars, configVars, lifecycleVars,
                           quick_cast_enabled, auto_cast_enabled, autoVars,
                           listenerVars, macroVars>>) ]_vars

\* start() has just failed on a platform without pynput, with a settings
\* file on disk that differs from the settings in memory.
C6_Witness ==
    /\ call.op = "start"
    /\ ~PYNPUT_AVAILABLE
    /\ call.ret = FALSE
    /\ disk.exists
    /\ LoadSettings(settings, disk) # settings
    /\ ~running

\* C7 as stated: whenever start() returns True the engine is running and
\* enabled.
C7_StartAlwaysEnabled ==
    (call.op = "start" /\ call.ret = TRUE) => (running /\ enabled)

\* C7 as amended: whenever start() returns True the engine is running, and
\* it is enabled unless start() was called while running and disabled, in
\* which case it stays disabled.
C7_StartEnabledUnlessDisabled ==
    [][ (call'.op = "start" /\ call'.ret = TRUE)
        => (/\ running'
            /\ enabled' = ~(running /\ ~enabled)) ]_vars

\* start() has just returned True in an engine that is running and disabled.
C7_Witness ==
    /\ call.op = "start"
    /\ call.ret = TRUE
    /\ running /\ ~enabled

\* C8: toggle() flips enabled, returns the new value and leaves running
\* alone; a toggle() that directly follows a toggle() restores the value
\* enabled had before the first one (the negation of what the first
\* returned).
C8_ToggleFlips ==
    [][ call'.op = "toggle"
        => (/\ enabled' = ~enabled
            /\ call'.ret = enabled'
            /\ running' = running
            /\ (call.op = "toggle" => enabled' = ~call.ret)) ]_vars

\* toggle() has just returned True in a running engine, which a toggle had
\* disabled before.
C8_Witness ==
    /\ call.op = "toggle"
    /\ call.ret = TRUE
    /\ running /\ enabled

\* C9: one key event triggers at most one of the engine toggle, a quick-cast
\* and a macro execution.
C9_AtMostOneCategory ==
    [][ call'.op = "on_press"
        => LET toggled == "toggle" \in Range(call'.invoked)
                              \/ enabled' # enabled
               quick == "_execute_quick_cast" \in Range(call'.invoked)
               macro == "_execute_macro" \in Range(call'.invoked)
                          \/ tasks' # tasks
           IN  ~(toggled /\ quick) /\ ~(toggled /\ macro) /\ ~(quick /\ macro)
      ]_vars

C11_DisabledSuppressesDispatch ==
    [][ (call'.op = "on_press" /\ ~enabled)
        => (/\ injected' = <<>>
            /\ UNCHANGED macroVars
            /\ "_execute_quick_cast" \notin Range(call'.invoked)
            /\ "_execute_macro" \notin Range(call'.invoked)) ]_vars

\* In a running, disabled engine with quick-cast on, a key event has just
\* been dropped whose key is a quick-cast hotkey and a macro hotkey and not
\* the global hotkey.
C11_Witness ==
    /\ call.op = "on_press"
    /\ call.invoked = <<>>
    /\ running /\ ~enabled
    /\ quick_cast_enabled
    /\ ~KeyMatches(call.arg, GetGlobalHotkey(settings))
    /\ QuickCastHit(KeyChar(call.arg)) # 0
    /\ MacroHit(KeyChar(call.arg)) # 0

\* C12: once enabled has become false while a macro thread was inside an
\* action, the thread executes none of its remaining actions: the next test
\* of enabled by such a thread does not take it into _execute_action and
\* makes no backend call, also when enabled is true again by then.
C12_AbandonedRunNeverResumes ==
    [][ call'.op = "run_macro"
        => \A t \in BagToSet(abandoned) :
             (t.phase = "check" /\ CopiesIn(t, abandoned') < CopiesIn(t, abandoned))
             => /\ injected' = <<>>
                /\ t.i <= Len(t.actions)
                     => CopiesIn(Entered(t), tasks') <= CopiesIn(Entered(t), tasks) ]_vars

\* The active backend cannot resolve a key of the action
Unresolvable(action) ==
    LET R(k) == IF DirectSelected THEN DirectResolves(k) ELSE PynputResolves(k)
    IN  CASE action.type \in {"key_press", "key_hold"} ->
               action.key # "" /\ ~R(action.key)
          [] action.type = "combo" ->
               \E j \in 1..Len(action.keys) : ~R(action.keys[j])
          [] OTHER -> FALSE

\* The step is taken by a macro thread at position t that finds enabled
\* true and an action left, and so calls _execute_action
EntersAction(t) ==
    /\ call'.op = "run_macro"
    /\ t.phase = "check"
    /\ t.i <= Len(t.actions)
    /\ enabled
    /\ CopiesIn(t, tasks') < CopiesIn(t, tasks)

\* C13: the name of every macro thread is eventually removed from
\* _macro_threads, whether the thread runs to the end of its actions, leaves
\* the loop because enabled is false, or has an action fail.
C13_HandleEventuallyRemoved ==
    \A n \in {M3.name, M4.name} :
        (n \in macro_threads) ~> (n \notin macro_threads)

\* C14: an action with a key the active backend cannot resolve does not end
\* the run: the thread that calls _execute_action for it, with enabled true,
\* is inside that action afterwards and goes on from there.
C14_UnresolvableKeyDoesNotAbort ==
    [][ \A t \in BagToSet(tasks) :
          (EntersAction(t) /\ Unresolvable(t.actions[t.i]))
          => CopiesIn(Entered(t), tasks') > CopiesIn(Entered(t), tasks) ]_vars

\* C15: the step that executes a combo action over n keys makes 2n calls on
\* the active backend: the presses of the keys in listed order, then the
\* releases of the keys in reverse order.
C15_ComboPressesThenReleasesReversed ==
    [][ \A t \in BagToSet(tasks) :
          (EntersAction(t) /\ t.actions[t.i].type = "combo")
          => LET keys == t.actions[t.i].keys
                 n == Len(keys)
             IN  /\ Len(injected') = 2 * n
                 /\ \A j \in 1..n :
                      /\ injected'[j].call \in {"press", "press_key"}
                      /\ injected'[j].arg = keys[j]
                      /\ injected'[n + j].call \in {"release", "release_key"}
                      /\ injected'[n + j].arg = keys[n + 1 - j]
                 /\ \A j \in 1..(2 * n) :
                      injected'[j].backend =
                        IF DirectSelected THEN "direct" ELSE "pynput" ]_vars

\* The step is an operation that reaches its call of _start_auto_cast_thread:
\* start() on a stopped engine that has a listener and finds auto-cast on,
\* toggle() that enables with auto-cast on, set_auto_cast_enabled(True) on a
\* running, enabled engine.
CallsStartAutoCastThread ==
    \/ call'.op = "start" /\ ~running /\ call'.ret = TRUE /\ auto_cast_enabled'
    \/ call'.op = "toggle" /\ ~enabled /\ auto_cast_enabled
    \/ call'.op = "set_auto_cast_enabled" /\ call'.arg = TRUE
          /\ running /\ enabled

\* C16: a call of _start_auto_cast_thread while the thread the engine holds
\* is alive starts no second thread and leaves the stop signal as it is.
C16_StartWhileAliveIsNoOp ==
    [][ (CallsStartAutoCastThread /\ AutoCastThreadAlive)
        => UNCHANGED autoVars ]_vars

\* set_auto_cast_enabled(True) has returned on a running, enabled engine
\* whose auto-cast thread is in the middle of a sweep: the thread was alive
\* when _start_auto_cast_thread was called, and it is still the only one.
C16_Witness ==
    /\ call.op = "set_auto_cast_enabled"
    /\ call.arg = TRUE
    /\ running /\ enabled
    /\ ~stop_auto_cast
    /\ BagCardinality(autos) = 1
    /\ \E a \in BagToSet(autos) : a.held /\ a.pc = "for" /\ a.i = 2

\* C17: a step that starts an auto-cast thread ends with the engine running
\* and enabled and with auto-cast enabled.
C17_AutoCastStartsOnlyWhenPermitted ==
    [][ BagCardinality(autos') > BagCardinality(autos)
        => (running' /\ enabled' /\ auto_cast_enabled') ]_vars

\* C18: a thread that was inside a sweep, sleeping after a tap, when the stop
\* event was set or the engine disabled, taps no further entry of the sweep:
\* its next step makes no backend call and takes it out of the for loop.
C18_SignalledSweepTapsNoMore ==
    [][ call'.op = "auto_cast_loop"
        => \A a \in BagToSet(autos) :
             (a.cut /\ CopiesIn(a, autos') < CopiesIn(a, autos))
             => /\ injected' = <<>>
                /\ \A b \in BagToSet(autos') :
                     b.pc = "for" => CopiesIn(b, autos') <= CopiesIn(b, autos) ]_vars

\* C19: a sweep works on the list as it was when the sweep began, whatever
\* is added to or removed from the settings meanwhile: the backend calls a
\* thread makes inside a sweep are the tap of an entry of that list.
C19_SweepTapsOnlyItsSnapshot ==
    [][ call'.op = "auto_cast_loop"
        => \A a \in BagToSet(autos) :
             (/\ a.pc = "for"
              /\ CopiesIn(a, autos') < CopiesIn(a, autos)
              /\ injected' # <<>>)
             => \E k \in 1..Len(a.snapshot) :
                  injected' = AutoCastTap(a.snapshot[k].hotkey) ]_vars

\* C20: while the engine runs enabled and no stop is signalled, a thread at
\* entry i of its sweep taps the entry's hotkey once, sleeps for the entry's
\* interval (the default interval if it has none) and goes on to entry i + 1;
\* past the last entry it sleeps for the default interval, without a backend
\* call, and is back at the while test.
C20_SweepTapsEachEntryThenSleeps ==
    [][ (call'.op = "auto_cast_loop" /\ running /\ enabled /\ ~stop_auto_cast)
        => \A a \in BagToSet(autos) :
             (a.pc = "for" /\ CopiesIn(a, autos') < CopiesIn(a, autos))
             => LET skills == GetAutoCastSkills(settings) IN
                IF a.i <= Len(skills)
                THEN /\ injected' = AutoCastTap(skills[a.i].hotkey)
                     /\ call'.ret = SkillInterval(skills[a.i],
                                                  GetAutoCastInterval(settings))
                     /\ CopiesIn([a EXCEPT !.i = @ + 1, !.cut = FALSE], autos')
                          > CopiesIn([a EXCEPT !.i = @ + 1, !.cut = FALSE], autos)
                ELSE /\ injected' = <<>>
                     /\ call'.ret = GetAutoCastInterval(settings)
                     /\ \E b \in BagToSet(autos') :
                          /\ b.pc = "while"
                          /\ CopiesIn(b, autos') > CopiesIn(b, autos) ]_vars

\* C21: remove_auto_cast_skill(h) returns false and leaves the list as it is
\* when no entry has the hotkey h; otherwise it returns true and the list is
\* the old one without exactly one entry of the hotkey h, the other entries
\* in their order.
C21_RemoveSkillDropsOneEntry ==
    [][call'.op = "remove_auto_cast_skill" =>
         LET old == GetAutoCastSkills(settings)
             new == GetAutoCastSkills(settings')
             h == call'.arg
         IN  IF \A i \in 1..Len(old) : old[i].hotkey # h
             THEN call'.ret = FALSE /\ new = old
             ELSE /\ call'.ret = TRUE
                  /\ Len(new) = Len(old) - 1
                  /\ \E i \in 1..Len(old) :
                        /\ old[i].hotkey = h
                        /\ new = SubSeq(old, 1, i - 1) \o SubSeq(old, i + 1, Len(old))
    ]_vars

\* remove_auto_cast_skill("1") has returned true on a list of two entries of
\* the hotkey: the second one is still there
C21_Witness ==
    /\ call.op = "remove_auto_cast_skill"
    /\ call.arg = "1"
    /\ call.ret = TRUE
    /\ GetAutoCastSkills(settings) = <<[hotkey |-> "1", interval_ms |-> 2000]>>

\* C22: remove_macro(name) returns false and leaves the macro list as it is
\* when no macro has the name; when one has, it returns true and no macro of
\* the name remains in the list.
C22_RemoveMacroLeavesNoneOfTheName ==
    [][call'.op = "remove_macro" =>
         LET old == GetMacros(settings)
             new == GetMacros(settings')
         IN  IF \A i \in 1..Len(old) : old[i].name # call'.arg
             THEN call'.ret = FALSE /\ new = old
             ELSE /\ call'.ret = TRUE
                  /\ \A i \in 1..Len(new) : new[i].name # call'.arg
    ]_vars

\* C23: in every reachable state of the settings no two macros of the list
\* share a name (an add_macro of a name the list holds adds no second entry).
C23_MacroNamesUnique ==
    LET macros == GetMacros(settings)
    IN  \A i, j \in 1..Len(macros) : macros[i].name = macros[j].name => i = j

\* C24: after any sequence of add_auto_cast_skill and remove_auto_cast_skill
\* calls the auto-cast list holds at most one entry per hotkey.
C24_OneEntryPerHotkey ==
    LET skills == GetAutoCastSkills(settings)
    IN  \A i, j \in 1..Len(skills) : skills[i].hotkey = skills[j].hotkey => i = j

\* C25: when save() returns true, load() of a fresh instance on the file
\* written returns true and yields the macro list (name, hotkey and action
\* sequence of every macro), the auto-cast entry list and the quick-cast and
\* auto-cast flags of the settings saved.
C25_SaveLoadRoundTrip ==
    [][call'.op = "save" /\ call'.ret = TRUE =>
         LET fresh == LoadSettings(DefaultSettings, disk')
         IN  /\ LoadResult(disk') = "True"
             /\ GetMacros(fresh) = GetMacros(settings)
             /\ GetAutoCastSkills(fresh) = GetAutoCastSkills(settings)
             /\ fresh.quick_cast.enabled = settings.quick_cast.enabled
             /\ fresh.auto_cast.enabled = settings.auto_cast.enabled
    ]_vars

\* save() has returned true on settings with a macro on a digit key, an
\* auto-cast entry and both flags away from their defaults
C25_Witness ==
    /\ call.op = "save"
    /\ call.ret = TRUE
    /\ disk = Dump(settings)
    /\ GetMacros(settings) = <<FileMacro>>
    /\ GetAutoCastSkills(settings) = <<[hotkey |-> "1", interval_ms |-> 2000]>>
    /\ ~settings.quick_cast.enabled
    /\ settings.auto_cast.enabled

\* C26: a load() that fails (no file, a file that cannot be opened, read or
\* parsed into settings) returns false and leaves the settings in memory
\* exactly as they were before the call.
C26_FailedLoadReturnsFalseUnchanged ==
    [][call'.op \in {"load", "load raises"} /\ LoadResult(disk) # "True" =>
         /\ call'.op = "load"
         /\ call'.ret = FALSE
         /\ settings' = settings
    ]_vars

\* The part of C26 the code keeps: a load() that returns false has changed
\* nothing.
LoadFalseLeavesSettings ==
    [][call'.op = "load" /\ LoadResult(disk) = "False" => settings' = settings]_vars

\* load() is left by an exception after dict.update has replaced a section
PartialOverwrite ==
    /\ call.op = "load raises"
    /\ disk = PairsFile([macros |-> <<>>])
    /\ GetMacros(settings) = <<>>
    /\ GetAutoCastSkills(settings) # <<>>

\* The calls of a method of a controller that is not available: a
\* FallbackController, or a DirectInputController where SendInput is missing
UnavailableCalls ==
    {OpName(ctl, op) : ctl \in {c \in Controllers : ~Available(c)},
                       op \in {"press_key", "release_key", "tap_key", "click_mouse"}}

\* C27: on a controller that is not available (the FallbackController, the
\* DirectInputController with available false) press_key, release_key,
\* tap_key and click_mouse return false for every key and button and hand no
\* event to SendInput.
C27_UnavailableBackendDoesNothing ==
    [][call'.op \in UnavailableCalls => call'.ret = FALSE /\ injected' = <<>>]_vars

\* tap_key('q') on a DirectInputController without SendInput has returned
\* false
C27_Witness ==
    /\ ~WINDOWS_AVAILABLE
    /\ call = Step(OpName("DirectInputController", "tap_key"), "q", FALSE,
                   <<"press_key">>)
    /\ injected = <<>>

\* The methods of the controller a call has invoked, without the waits
Invocations(c) == SelectSeq(c.invoked, LAMBDA m : m # "time.sleep")

TapCalls == {OpName(ctl, "tap_key") : ctl \in Controllers}

\* C28 as stated: every call of tap_key invokes press_key once and then
\* release_key once, and returns true only if both returned true.
C28_TapInvokesPressAndRelease ==
    [][call'.op \in TapCalls =>
         /\ Invocations(call') = <<"press_key", "release_key">>
         /\ call'.ret = TRUE =>
               injected' = <<Ev("SendInput", "keydown", Lower(call'.arg)),
                             Ev("SendInput", "keyup", Lower(call'.arg))>>
    ]_vars

\* C28 (amended): a tap_key of a DirectInputController invokes press_key
\* once; when that returned true it waits, invokes release_key once and
\* returns its result, so a tap that returns true has sent the key down and
\* then the key up; when press_key returned false (the controller is not
\* available or the key has no scan code) tap_key returns false without
\* invoking release_key and nothing is sent.  The tap_key of a
\* FallbackController returns false and invokes neither.
C28_TapReleasesAfterSuccessfulPress ==
    [][call'.op \in TapCalls =>
         IF call'.op = OpName("FallbackController", "tap_key")
         THEN call'.ret = FALSE /\ call'.invoked = <<>> /\ injected' = <<>>
         ELSE IF WINDOWS_AVAILABLE /\ DirectResolves(call'.arg)
         THEN /\ call'.invoked = <<"press_key", "time.sleep", "release_key">>
              /\ call'.ret = TRUE
              /\ injected' = <<Ev("SendInput", "keydown", Lower(call'.arg)),
                               Ev("SendInput", "keyup", Lower(call'.arg))>>
         ELSE /\ call'.invoked = <<"press_key">>
              /\ call'.ret = FALSE
              /\ injected' = <<>>
    ]_vars

\* tap_key('f13') on an available DirectInputController has returned false
\* after press_key alone
C28_Witness ==
    /\ WINDOWS_AVAILABLE
    /\ call = Step(OpName("DirectInputController", "tap_key"), "f13", FALSE,
                   <<"press_key">>)
    /\ injected = <<>>

\* C29: all the backend calls of one macro run go to the same backend, also
\* when set_direct_input_enabled is called while the run is in progress.
C29_RunKeepsItsBackend ==
    \A t \in BagToSet(tasks) : Cardinality(t.used) <= 1

\* What the code does keep: the release of a held key goes to the backend
\* its press went to, selected by one test before the wait.
HoldReleasesWherePressed ==
    [][call'.op = "run_macro" =>
         \A t \in BagToSet(tasks) :
            (/\ t.phase = "action"
             /\ CopiesIn(t, tasks') < CopiesIn(t, tasks)
             /\ t.actions[t.i].type = "key_hold")
            => Backends(injected') = {IF t.direct THEN "direct" ELSE "pynput"}
    ]_vars

\* C30: the listener callback is never suspended: the handling of a key
\* event, a global-toggle event that stops the auto-cast thread and a
\* quick-cast dispatch included, joins no live thread and makes no backend
\* call that sleeps.
C30_ListenerNeverSuspends ==
    [][call'.op = "on_press" =>
         /\ ~("toggle" \in Range(call'.invoked) /\ enabled /\ ~enabled'
                /\ StopAutoCastThreadWaits)
         /\ \A j \in 1..Len(injected') : ~SleepsInside(injected'[j])
    ]_vars

\* The first half of C30 alone: no key event joins a live auto-cast thread
ListenerNeverJoins ==
    [][call'.op = "on_press" =>
         ~("toggle" \in Range(call'.invoked) /\ enabled /\ ~enabled'
            /\ StopAutoCastThreadWaits)
    ]_vars

\* C31: the macro-handle mapping and the settings are written only by the
\* calls of the public API: no step of the listener callback, of a macro
\* thread or of the auto-cast thread changes _macro_threads or the settings.
C31_OnlyApiMutatesHandlesAndSettings ==
    [][call'.op \in {"on_press", "run_macro", "auto_cast_loop"} =>
         macro_threads' = macro_threads /\ settings' = settings]_vars

\* The half of C31 that holds: the listener callback and the threads leave
\* the settings as they are
BackgroundKeepsSettings ==
    [][call'.op \in {"on_press", "run_macro", "auto_cast_loop"} =>
         settings' = settings]_vars

\* The key identifier of a key event equals a hotkey, case-insensitively
SameKey(key, hotkey) == KeyChar(key) # "" /\ Lower(KeyChar(key)) = Lower(hotkey)

\* C32: the macro list is scanned in definition order and the first macro
\* whose hotkey equals the key identifier, case-insensitively, is the only
\* one triggered: a key event starts at most one macro thread, and the
\* thread it starts is that of the first such macro, never of a later one.
C32_FirstMatchingMacroOnly ==
    [][call'.op = "on_press" =>
         LET macros == GetMacros(settings)
             started == tasks' (-) tasks
         IN  /\ BagCardinality(started) <= 1
             /\ tasks (-) tasks' = EmptyBag
             /\ \A t \in BagToSet(started) :
                  \E i \in 1..Len(macros) :
                     /\ SameKey(call'.arg, macros[i].hotkey)
                     /\ \A j \in 1..(i - 1) : ~SameKey(call'.arg, macros[j].hotkey)
                     /\ t = NewTask(macros[i])
    ]_vars

\* The key event 'x' has started the thread of the first of the two macros
\* bound to that key
C32_Witness ==
    /\ call.op = "on_press"
    /\ call.arg = CharKey("x")
    /\ "_execute_macro" \in Range(call.invoked)
    /\ tasks = One(NewTask(D1))
    /\ macro_threads = {D1.name}
    /\ GetMacros(settings) = <<D1, D2, D3>>

\* Sequence p is q up to some index
IsPrefix(p, q) == Len(p) <= Len(q) /\ p = SubSeq(q, 1, Len(p))

\* C33: the actions of a macro run execute strictly in list order on the
\* run's own thread.  A thread starts before its first action; a step of a
\* thread that is before action i makes backend calls of action i only (those
\* that precede its wait, or the first of them when one raises) and leaves
\* the thread inside action i or ends it; a step of a thread inside action i
\* makes the calls that follow the wait of action i and leaves the thread
\* before action i + 1.  So the actions executed are always a prefix of the
\* list and no call of action i + 1 precedes the end of action i.
C33_ActionsRunInListOrder ==
    [][ /\ call'.op = "on_press" =>
             \A t \in BagToSet(tasks' (-) tasks) : t.phase = "check" /\ t.i = 1
        /\ call'.op = "run_macro" =>
             LET from == tasks (-) tasks'
                 to == tasks' (-) tasks
             IN  /\ BagCardinality(from) = 1
                 /\ BagCardinality(to) <= 1
                 /\ \A t \in BagToSet(from) :
                      IF t.phase = "check"
                      THEN /\ IF t.i > Len(t.actions) THEN injected' = <<>>
                              ELSE IsPrefix(injected', ActionBefore(t.actions[t.i]))
                           /\ \A u \in BagToSet(to) :
                                /\ u.phase = "action" /\ u.i = t.i
                                /\ u.name = t.name /\ u.actions = t.actions
                                /\ injected' = ActionBefore(t.actions[t.i])
                      ELSE /\ injected' = ActionAfterOn(t.actions[t.i], t.direct)
                           /\ BagCardinality(to) = 1
                           /\ \A u \in BagToSet(to) :
                                /\ u.phase = "check" /\ u.i = t.i + 1
                                /\ u.name = t.name /\ u.actions = t.actions
      ]_vars

\* A thread of M4 has held and released 'b', its second and last action, and
\* stands behind the end of the list
C33_Witness ==
    /\ call.op = "run_macro"
    /\ injected # <<>>
    /\ injected[1].call \in {"release", "release_key"}
    /\ \E t \in BagToSet(tasks) :
         t.name = M4.name /\ t.phase = "check" /\ t.i = Len(M4.actions) + 1

\* The keys a sequence of backend calls leaves down: pressed more often than
\* released (a tap_key of the DirectInput controller does both)
Unreleased(calls) ==
    LET Count(k, names) ==
            Cardinality({j \in 1..Len(calls) :
                            calls[j].arg = k /\ calls[j].call \in names})
    IN  {k \in {calls[j].arg : j \in 1..Len(calls)} :
            Count(k, {"press", "press_key"}) > Count(k, {"release", "release_key"})}

\* C34: a key_hold or combo action is not preempted between press and
\* release, and no macro run ends with a key it pressed still down.  stop(),
\* toggle() and key events remove no thread that is inside an action; a step
\* that takes a thread into an action leaves down only the keys the rest of
\* that action releases; a step after which the thread is gone leaves no
\* key down.
C34_PressedKeysAreReleased ==
    [][ /\ call'.op \in {"stop", "toggle", "on_press"} =>
             \A t \in BagToSet(tasks) :
                t.phase = "action" => CopiesIn(t, tasks') >= CopiesIn(t, tasks)
        /\ call'.op = "run_macro" =>
             LET to == tasks' (-) tasks
             IN  IF to = EmptyBag
                 THEN Unreleased(injected') = {}
                 ELSE \A u \in BagToSet(to) :
                        u.phase = "action" =>
                          Unreleased(injected') =
                            {e.arg : e \in Range(ActionAfterOn(u.actions[u.i], u.direct))}
      ]_vars

\* What holds of key_hold alone: a thread inside a hold survives stop() and
\* toggle() and its next step releases the key
HoldIsNotPreempted ==
    [][ /\ call'.op \in {"stop", "toggle", "on_press"} =>
             \A t \in BagToSet(tasks) :
                t.phase = "action" => CopiesIn(t, tasks') >= CopiesIn(t, tasks)
        /\ call'.op = "run_macro" =>
             \A t \in BagToSet(tasks (-) tasks') :
                (t.phase = "action" /\ t.actions[t.i].type = "key_hold")
                => /\ Len(injected') = 1
                   /\ injected'[1].call \in {"release", "release_key"}
                   /\ injected'[1].arg = t.actions[t.i].key
      ]_vars

\* C35: the engine is always Stopped, Running+Enabled or Running+Disabled:
\* in every state reachable by start(), stop(), toggle() and toggle-hotkey
\* events, enabled implies running.
C35_EnabledImpliesRunning == enabled => running

\* The join timeout of _stop_auto_cast_thread, in ms
JoinTimeoutMs == 1000

\* Thread a is in the sleep that follows its tap of an entry whose interval
\* is longer than the join timeout
InLongSleep(a) ==
    /\ a.pc = "for"
    /\ a.i > 1
    /\ a.i - 1 <= Len(a.snapshot)
    /\ SkillInterval(a.snapshot[a.i - 1], a.interval_ms) > JoinTimeoutMs

\* C36: at most one auto-cast loop is alive and sweeping.  A thread that was
\* stopped (event set, handle dropped) while it was inside an interval wait
\* longer than the join timeout does not tap again when it wakes up while the
\* thread of a later start is alive.
C36_OnlyOneLoopTaps ==
    [][ call'.op = "auto_cast_loop"
        => \A a \in BagToSet(autos) :
             (/\ CopiesIn(a, autos') < CopiesIn(a, autos)
              /\ a.cut /\ ~a.held /\ InLongSleep(a)
              /\ AutoCastThreadAlive)
             => injected' = <<>> ]_vars

\* The last step was a call of start(), stop() or toggle() that returned
LifecycleCallReturned ==
    call.op \in {"start", "stop", "toggle"} /\ call.invoked = <<>>

\* C37: after every call of start(), stop() or toggle() that returns, a
\* keyboard listener exists exactly when the engine is running, and never
\* more than one
C37_ListenerIffRunning ==
    LifecycleCallReturned
    => /\ keyboard_listener <=> running
       /\ listeners = IF running THEN 1 ELSE 0

\* With no file or a well-formed file at start(), the listener exists exactly
\* when the engine is running, in every state
ListenerIffRunning ==
    /\ keyboard_listener <=> running
    /\ listeners = IF running THEN 1 ELSE 0

\* The last step was a public call that starts or reloads, and it returned
StartingCallReturned ==
    /\ call.op \in {"start", "toggle", "set_auto_cast_enabled",
                    "reload_settings"}
    /\ call.invoked = <<>>

\* C38: after start(), toggle(), set_auto_cast_enabled() or reload_settings()
\* has returned with the engine running and enabled and the auto-cast flag
\* true, the auto-cast thread is alive
C38_AutoCastActiveWhenConfigured ==
    (StartingCallReturned /\ running /\ enabled /\ auto_cast_enabled)
    => AutoCastThreadAlive

\* The engine is stopped and no start() or toggle() has been called since
StoppedSince == ~running /\ ~enabled /\ stop_auto_cast

\* While the engine stays stopped, a macro thread at the test of enabled
\* ends without a backend call, so that a thread runs at most the action it
\* was inside; and an auto-cast thread taps no more and starts no sweep
StoppedThreadsRunNoFurther ==
    [][ (StoppedSince /\ ~enabled')
        => /\ call'.op = "run_macro"
              => \A t \in BagToSet(tasks) :
                   (t.phase = "check" /\ CopiesIn(t, tasks') < CopiesIn(t, tasks))
                   => injected' = <<>> /\ BagCardinality(tasks') < BagCardinality(tasks)
           /\ call'.op = "auto_cast_loop"
              => /\ injected' = <<>>
                 /\ \A a \in BagToSet(autos') : a.pc = "for" => BagIn(a, autos) ]_vars

\* Once stop() has returned, all macro threads and auto-cast threads have
\* ended at some later time, unless start() or toggle() is called before
StoppedThreadsTerminate ==
    (call.op = "stop") ~> (enabled \/ (tasks = EmptyBag /\ autos = EmptyBag))

\* C39: after stop() has returned and as long as neither start() nor toggle()
\* is called, every macro thread in flight executes at most the action it was
\* inside and ends, and the auto-cast thread taps at most once more and ends
C39_StopEndsAllThreads ==
    StoppedThreadsRunNoFurther /\ StoppedThreadsTerminate

\* stop() has just returned with a macro thread inside an action and an
\* auto-cast thread in the sleep after a tap
C39_Witness ==
    /\ call.op = "stop"
    /\ \E t \in BagToSet(tasks) : t.phase = "action"
    /\ \E a \in BagToSet(autos) : a.pc = "for" /\ a.i > 1

\* C40: a macro and a quick-cast slot bound to a named key fire when that key
\* is pressed while the engine is enabled: the key event of f9 reaches
\* _execute_macro for D3 and, with quick-cast on, _execute_quick_cast for
\* skill_6, as the event of the global hotkey reaches toggle()
C40_NamedKeyFiresMacroAndSlot ==
    [][ (/\ call'.op = "on_press"
         /\ call'.arg = SpecialKey(D3.hotkey)
         /\ enabled)
        => /\ "_execute_macro" \in Range(call'.invoked)
           /\ quick_cast_enabled
              => "_execute_quick_cast" \in Range(call'.invoked) ]_vars

\* The same hotkeys bound to a character key do fire: the event of x reaches
\* _execute_macro
CharacterKeyFiresMacro ==
    [][ (call'.op = "on_press" /\ call'.arg = CharKey("x") /\ enabled)
        => "_execute_macro" \in Range(call'.invoked) ]_vars

====
